---- MODULE Spec2Model ----
(***************************************************************************)
(* Model of the recommendation pipeline of bookvault                       *)
(* (src/unnamed/part_004: the recommendation API handler and its helpers). *)
(*                                                                         *)
(* Strings are TLA+ strings; a character of s is SubSeq(s, i, i).          *)
(* null is the string constant Null ("<null>"), which no text of the       *)
(* model's universe equals.                                                *)
(***************************************************************************)
EXTENDS Integers, Sequences, FiniteSets, TLC

VARIABLES
    pm,      \* one pMapLimit call: items, concurrency, workers, out
    caches,  \* the module-level identity caches (Maps that outlive a request)
    rc,      \* the last resolver call made on its own: what it did and returned
    req,     \* the request: session, query parameters, library rows, events
    h,       \* the handler's locals and its position
    resp,    \* the response written by jsonOk / jsonErr, or NoResponse
    searches \* the clock (Date.now) and the openLibrarySearch calls in flight

vars == <<pm, caches, rc, req, h, resp, searches>>

Null == "<null>"

\* rc before any resolver call
NoCall ==
    [fn |-> "none", val |-> Null, threw |-> FALSE, calls |-> 0, kind |-> "none",
     failed |-> FALSE]

EmptyMap == <<>>

\* no search call made yet: the clock at 0, nothing in flight
NoSearchStep == [kind |-> "none", url |-> <<>>, docs |-> <<>>, size |-> 0]
ScIdle == [now |-> 0, ticks |-> 0, started |-> 0, flight |-> {}, last |-> NoSearchStep]

\* the identity caches of a fresh process
EmptyCaches ==
    [olIsbnWork |-> EmptyMap, workWikidata |-> EmptyMap, wikidataTitleAuthor |-> EmptyMap,
     search |-> EmptyMap]

Min(a, b) == IF a < b THEN a ELSE b
Max(a, b) == IF a > b THEN a ELSE b

Range(s) == {s[i] : i \in 1..Len(s)}

(***************************************************************************)
(* Text normalizer                                                         *)
(***************************************************************************)
Char(s, i) == SubSeq(s, i, i)

UpperChars == "ABCDEFGHIJKLMNOPQRSTUVWXYZ"
LowerChars == "abcdefghijklmnopqrstuvwxyz"
DigitChars == "0123456789"

CharsOf(s) == {Char(s, i) : i \in 1..Len(s)}

UpperSet == CharsOf(UpperChars)
AlnumSet == CharsOf(LowerChars) \cup CharsOf(DigitChars)
DigitSet == CharsOf(DigitChars)

RECURSIVE IndexFrom(_, _, _)
\* position of character c in s at or after i, 0 when absent
IndexFrom(s, c, i) ==
    IF i > Len(s) THEN 0
    ELSE IF Char(s, i) = c THEN i
    ELSE IndexFrom(s, c, i + 1)

InChars(c, s) == IndexFrom(s, c, 1) # 0

\* String.prototype.toLowerCase on one character
toLowerChar(c) ==
    IF c \in UpperSet THEN Char(LowerChars, IndexFrom(UpperChars, c, 1)) ELSE c

RECURSIVE MapLower(_, _)
MapLower(s, i) ==
    IF i > Len(s) THEN "" ELSE toLowerChar(Char(s, i)) \o MapLower(s, i + 1)

toLowerCase(s) == MapLower(s, 1)

RECURSIVE DropChars(_, _, _)
\* s.replace(/[set]/g, "")
DropChars(s, set, i) ==
    IF i > Len(s) THEN ""
    ELSE (IF InChars(Char(s, i), set) THEN "" ELSE Char(s, i)) \o DropChars(s, set, i + 1)

IsAlnum(c) == c \in AlnumSet

RECURSIVE ReplaceNonAlnumRuns(_, _, _)
\* s.replace(/[^a-z0-9]+/g, " "): every maximal run becomes one space
ReplaceNonAlnumRuns(s, i, inRun) ==
    IF i > Len(s) THEN ""
    ELSE IF IsAlnum(Char(s, i)) THEN Char(s, i) \o ReplaceNonAlnumRuns(s, i + 1, FALSE)
    ELSE (IF inRun THEN "" ELSE " ") \o ReplaceNonAlnumRuns(s, i + 1, TRUE)

IsSpace(c) == c = " "

RECURSIVE TrimLeft(_)
TrimLeft(s) ==
    IF Len(s) > 0 /\ IsSpace(Char(s, 1)) THEN TrimLeft(SubSeq(s, 2, Len(s))) ELSE s

RECURSIVE TrimRight(_)
TrimRight(s) ==
    IF Len(s) > 0 /\ IsSpace(Char(s, Len(s))) THEN TrimRight(SubSeq(s, 1, Len(s) - 1)) ELSE s

\* String.prototype.trim
trim(s) == TrimRight(TrimLeft(s))

\* norm: lower-case, (NFKD and the combining marks: the identity on the ASCII
\* texts of this model), drop quotes, non-alphanumeric runs to one space, trim
NormOf(s) ==
    trim(ReplaceNonAlnumRuns(DropChars(toLowerCase(s), "'\"", 1), 1, FALSE))

\* titles of one word each, no two alike and none a stop word
ManyTitles ==
    << "Asp", "Bat", "Cod", "Doe", "Eel", "Fox", "Gar", "Hog", "Jay", "Kea", "Lark",
       "Mole", "Newt", "Orca", "Pug", "Ram", "Seal", "Tern", "Vole", "Wasp", "Yak" >>

\* the texts of the model's universe, whose normal forms are tabulated once
KnownTexts ==
    { "", "Node B", "The Node B Two", "Knoten B", "The Ark", "Ark Two", "Cat", "Dune",
      "Elm", "Fig", "Gnu", "Hen", "Ibis", "Node", "Ark", "Al X", "AL X", "A. X", "?", "Bo",
      "X", "Someone Else", "Node B Two", "Dune Messiah", "software", "boat",
      "novel by Al X", "Roman von A. X", "Gato", "Bo Z", "Al X, Bo", "grief", "fiction",
      "Knot", "The Knot", "Il Gatto", "Gatto" } \cup Range(ManyTitles)

NormTable == [s \in KnownTexts |-> NormOf(s)]

norm(s) == IF s \in KnownTexts THEN NormTable[s] ELSE NormOf(s)

RECURSIVE SplitFrom(_, _, _)
\* s.split(sep) for a one-character separator, from position i
SplitFrom(s, sep, i) ==
    LET k == IndexFrom(s, sep, i)
    IN  IF k = 0 THEN <<SubSeq(s, i, Len(s))>>
        ELSE <<SubSeq(s, i, k - 1)>> \o SplitFrom(s, sep, k + 1)

split(s, sep) == SplitFrom(s, sep, 1)

\* arr.filter(Boolean) on strings: drop the empty ones
FilterNonEmpty(seq) == SelectSeq(seq, LAMBDA x : x # "")

RECURSIVE join(_, _)
join(seq, sep) ==
    IF Len(seq) = 0 THEN ""
    ELSE IF Len(seq) = 1 THEN seq[1]
    ELSE seq[1] \o sep \o join(Tail(seq), sep)

RECURSIVE IncludesFrom(_, _, _)
IncludesFrom(s, t, i) ==
    IF i + Len(t) - 1 > Len(s) THEN FALSE
    ELSE IF SubSeq(s, i, i + Len(t) - 1) = t THEN TRUE
    ELSE IncludesFrom(s, t, i + 1)

\* String.prototype.includes
includes(s, t) == IF t = "" THEN TRUE ELSE IncludesFrom(s, t, 1)

slice(seq, n) == SubSeq(seq, 1, Min(n, Len(seq)))

pickPrimaryAuthor(authors) == trim(split(authors, ",")[1])

authorLastName(author) ==
    LET parts == FilterNonEmpty(split(trim(author), " "))
    IN  IF Len(parts) = 0 THEN "" ELSE parts[Len(parts)]

TITLE_STOPWORDS ==
    { "the", "a", "an", "and", "or", "of", "to", "in", "on", "for", "with",
      "der", "die", "das", "ein", "eine", "und", "oder", "von", "zu", "mit", "im", "am",
      "le", "la", "les", "de", "des", "du", "et", "un", "une",
      "el", "los", "las", "del", "y", "una",
      "il", "lo", "gli", "i", "dei", "degli" }

primaryAuthorKey(authors) == norm(pickPrimaryAuthor(authors))

titleTokens(title) ==
    SelectSeq(FilterNonEmpty(split(norm(title), " ")), LAMBDA t : t \notin TITLE_STOPWORDS)

TitleKeyTokens == 10

TitleTokenKeyOf(title) == join(slice(titleTokens(title), TitleKeyTokens), " ")

TitleTokenKeyTable == [s \in KnownTexts |-> TitleTokenKeyOf(s)]

titleTokenKey(title) ==
    IF title \in KnownTexts THEN TitleTokenKeyTable[title] ELSE TitleTokenKeyOf(title)

tokenOverlapRatioAtLeast70(a, b) ==
    IF Len(a) = 0 \/ Len(b) = 0 THEN FALSE
    ELSE LET sa == Range(a)
             sb == Range(b)
             inter == Cardinality(sa \cap sb)
             den == Max(Cardinality(sa), Cardinality(sb))
         IN  \* inter / den >= 0.7 in exact arithmetic (7/10 is the double 0.7)
             10 * inter >= 7 * den

isTitleNearDuplicateSameAuthor(aTitle, bTitle) ==
    LET ak == titleTokenKey(aTitle)
        bk == titleTokenKey(bTitle)
    IN  IF ak = "" \/ bk = "" THEN FALSE
        ELSE IF ak = bk THEN TRUE
        ELSE IF includes(ak, bk) \/ includes(bk, ak) THEN TRUE
        ELSE tokenOverlapRatioAtLeast70(FilterNonEmpty(split(ak, " ")),
                                        FilterNonEmpty(split(bk, " ")))

(***************************************************************************)
(* pMapLimit(items, concurrency, mapper)                                   *)
(*                                                                         *)
(* JavaScript runs one task at a time: a worker runs from one await to the *)
(* next without interruption, so "read nextIndex, increment it, call the   *)
(* mapper" is one step.  A mapper call is in flight from that step until   *)
(* its promise settles; the worker resumes in a later step.                *)
(***************************************************************************)
MaxItems == 3
MaxConcurrency == 2

ItemVals == {"a", "b"}
MapperVals == {"r1", "r2"}

Hole == "<hole>"

PmIdle ==
    [status |-> "idle", items |-> <<>>, concurrency |-> 0, out |-> <<>>,
     nextIndex |-> 1, workers |-> <<>>, calls |-> <<>>, settled |-> <<>>,
     settleOrder |-> <<>>]

\* Math.max(1, Math.min(concurrency, items.length)) workers, all spawned
WorkerCountUnbounded(items, concurrency) == Max(1, Len(items))

WorkerCount(items, concurrency) == Max(1, Min(concurrency, Len(items)))

\* the slot "out[i] = await mapper(items[i])" writes: the worker's own i
StoreIndexShared(p, w) == p.nextIndex - 1

StoreIndex(p, w) == p.workers[w].i

\* one turn of a worker's loop, up to its await (or its return)
WorkerTake(p, w) ==
    LET i == p.nextIndex
    IN  IF i > Len(p.items)
        THEN [p EXCEPT !.nextIndex = i + 1,
                       !.workers[w] = [st |-> "returned", i |-> 0, val |-> Null]]
        ELSE [p EXCEPT !.nextIndex = i + 1,
                       !.workers[w] = [st |-> "inflight", i |-> i, val |-> Null],
                       !.calls = Append(@, [index |-> i, item |-> p.items[i]])]

RECURSIVE SpawnWorkers(_, _, _)
\* Array.from({length}, () => worker()): each worker runs to its first await
SpawnWorkers(p, w, n) ==
    IF w > n THEN p ELSE SpawnWorkers(WorkerTake(p, w), w + 1, n)

\* a Promise.all that settles with the first worker that returns
PmAnyReturned(p) == \E w \in 1..Len(p.workers) : p.workers[w].st = "returned"

\* await Promise.all(workers): every worker has returned
PmAllReturned(p) == \A w \in 1..Len(p.workers) : p.workers[w].st = "returned"

InFlight(p) == Cardinality({w \in 1..Len(p.workers) : p.workers[w].st = "inflight"})

\* the call: the empty list returns at once, else the workers are spawned
PMapCall(items, concurrency) ==
    /\ pm.status = "idle"
    /\ IF Len(items) = 0
       THEN pm' = [PmIdle EXCEPT !.status = "resolved", !.concurrency = concurrency]
       ELSE LET n == WorkerCount(items, concurrency)
                p0 == [PmIdle EXCEPT !.status = "running",
                                     !.items = items,
                                     !.concurrency = concurrency,
                                     !.out = [k \in 1..Len(items) |-> Hole],
                                     !.settled = [k \in 1..Len(items) |-> Hole],
                                     !.workers = [k \in 1..n |->
                                         [st |-> "new", i |-> 0, val |-> Null]]]
            IN  pm' = SpawnWorkers(p0, 1, n)
    /\ UNCHANGED <<caches, rc, req, h, resp, searches>>

\* a mapper promise fulfils with v, in any order among the calls in flight
MapperFulfil(w, v) ==
    /\ pm.status \in {"running", "rejected"}
    /\ w \in 1..Len(pm.workers)
    /\ pm.workers[w].st = "inflight"
    /\ pm' = [pm EXCEPT !.workers[w].st = "fulfilled",
                        !.workers[w].val = v,
                        !.settled[pm.workers[w].i] = v,
                        !.settleOrder = Append(@, pm.workers[w].i)]
    /\ UNCHANGED <<caches, rc, req, h, resp, searches>>

\* a mapper promise rejects
MapperReject(w) ==
    /\ pm.status \in {"running", "rejected"}
    /\ w \in 1..Len(pm.workers)
    /\ pm.workers[w].st = "inflight"
    /\ pm' = [pm EXCEPT !.workers[w].st = "threw",
                        !.settleOrder = Append(@, pm.workers[w].i)]
    /\ UNCHANGED <<caches, rc, req, h, resp, searches>>

\* the worker continues after its await: store the value, take the next index
WorkerResume(w) ==
    /\ pm.status \in {"running", "rejected"}
    /\ w \in 1..Len(pm.workers)
    /\ pm.workers[w].st = "fulfilled"
    /\ pm' = WorkerTake([pm EXCEPT !.out[StoreIndex(pm, w)] = pm.workers[w].val], w)
    /\ UNCHANGED <<caches, rc, req, h, resp, searches>>

\* the await throws in the worker: its promise rejects, and so does Promise.all
WorkerThrow(w) ==
    /\ pm.status \in {"running", "rejected"}
    /\ w \in 1..Len(pm.workers)
    /\ pm.workers[w].st = "threw"
    /\ pm' = [pm EXCEPT !.workers[w].st = "failed", !.status = "rejected"]
    /\ UNCHANGED <<caches, rc, req, h, resp, searches>>

\* await Promise.all(workers); return out
PMapReturn ==
    /\ pm.status = "running"
    /\ PmAllReturned(pm)
    /\ pm' = [pm EXCEPT !.status = "resolved"]
    /\ UNCHANGED <<caches, rc, req, h, resp, searches>>

SeqsUpTo(S, n) == UNION {[1..k -> S] : k \in 0..n}

PMapInit ==
    /\ pm = PmIdle
    /\ caches = EmptyCaches
    /\ rc = NoCall
    /\ req = Null
    /\ h = Null
    /\ resp = Null
    /\ searches = ScIdle

PMapNext ==
    \/ \E items \in SeqsUpTo(ItemVals, MaxItems), c \in 1..MaxConcurrency :
           PMapCall(items, c)
    \/ \E w \in 1..MaxConcurrency + 1, v \in MapperVals : MapperFulfil(w, v)
    \/ \E w \in 1..MaxConcurrency + 1 : MapperReject(w)
    \/ \E w \in 1..MaxConcurrency + 1 : WorkerResume(w)
    \/ \E w \in 1..MaxConcurrency + 1 : WorkerThrow(w)
    \/ PMapReturn

SpecPMap == PMapInit /\ [][PMapNext]_vars

\* C8: at every moment of a pMapLimit call the mapper calls in flight number at
\* most the concurrency K, and at most max(1, min(K, |items|))
C8_InFlightAtMostK ==
    pm.status # "idle" =>
        /\ InFlight(pm) <= pm.concurrency
        /\ InFlight(pm) <= Max(1, Min(pm.concurrency, Len(pm.items)))

\* the limiter binds: K calls in flight while an item still waits for a worker
C8_Witness ==
    /\ pm.status = "running"
    /\ InFlight(pm) = pm.concurrency
    /\ pm.nextIndex <= Len(pm.items)
    /\ Len(pm.settleOrder) > 0

\* C9: when pMapLimit resolves, position i of its output holds what the mapper
\* call made for items[i] fulfilled with, in whatever order the calls completed
C9_OutputMatchesInput ==
    pm.status = "resolved" =>
        /\ Len(pm.out) = Len(pm.items)
        /\ \A i \in 1..Len(pm.items) :
               /\ pm.out[i] = pm.settled[i]
               /\ pm.out[i] # Hole
               /\ \E c \in 1..Len(pm.calls) :
                      pm.calls[c] = [index |-> i, item |-> pm.items[i]]

\* resolved after the calls completed out of input order, with different values
C9_Witness ==
    /\ pm.status = "resolved"
    /\ Len(pm.items) >= 2
    /\ \E a, b \in 1..Len(pm.settleOrder) :
           a < b /\ pm.settleOrder[a] > pm.settleOrder[b]
    /\ \E i, j \in 1..Len(pm.items) : pm.out[i] # pm.out[j]

\* pMapLimit with a mapper whose every call fulfils: each call in flight
\* settles in the end, a worker whose await has settled is resumed, and the
\* await of Promise.all is resumed once every worker has returned
PMapSettleNext ==
    \/ \E items \in SeqsUpTo(ItemVals, MaxItems), c \in 1..MaxConcurrency :
           PMapCall(items, c)
    \/ \E w \in 1..MaxConcurrency, v \in MapperVals : MapperFulfil(w, v)
    \/ \E w \in 1..MaxConcurrency : WorkerResume(w)
    \/ PMapReturn

SpecPMapSettles ==
    /\ PMapInit
    /\ [][PMapSettleNext]_vars
    /\ \A w \in 1..MaxConcurrency : WF_vars(\E v \in MapperVals : MapperFulfil(w, v))
    /\ \A w \in 1..MaxConcurrency : WF_vars(WorkerResume(w))
    /\ WF_vars(PMapReturn)

CallIndexes == {pm.calls[c].index : c \in 1..Len(pm.calls)}

PmFilled == pm.status = "resolved" /\ \A i \in 1..Len(pm.items) : pm.out[i] # Hole

\* C29: no index is passed to the mapper twice and, once the call resolves,
\* every index was passed, with its item; a call whose mapper calls all fulfil
\* resolves in the end with every position filled; the call with no items
\* resolves with the empty list and no mapper call
C29_EachIndexOnceAndResolves ==
    /\ [](\A c, d \in 1..Len(pm.calls) : pm.calls[c].index = pm.calls[d].index => c = d)
    /\ [](\A c \in 1..Len(pm.calls) : pm.calls[c].item = pm.items[pm.calls[c].index])
    /\ [](pm.status = "resolved" => CallIndexes = 1..Len(pm.items) /\ Len(pm.out) = Len(pm.items))
    /\ (pm.status = "running") ~> PmFilled

\* resolved with every position filled after the calls settled out of input
\* order, with more items than workers
C29_Witness ==
    /\ PmFilled
    /\ Len(pm.items) = MaxItems
    /\ Len(pm.workers) = MaxConcurrency
    /\ Len(pm.calls) = MaxItems
    /\ \E a, b \in 1..Len(pm.settleOrder) :
           a < b /\ pm.settleOrder[a] > pm.settleOrder[b]

(***************************************************************************)
(* The external catalog (OpenLibrary) and identity source (Wikidata).      *)
(* Their answers are fixed (the catalog is immutable); what varies is      *)
(* whether a call reaches them.  A catalog answer is [ok, json]: ok FALSE  *)
(* is a non-success HTTP status (an unknown identifier is a 404).          *)
(***************************************************************************)
IsbnNodeB == "9780000000001"
IsbnKnoten == "9780000000002"
IsbnArk == "9780000000003"
IsbnArkTwo == "9780000000004"
IsbnNodeBTwo == "9780000000005"
IsbnCat == "9780000000006"
IsbnKnot == "9780000000009"

NotFound == [ok |-> FALSE, json |-> Null]
Found(j) == [ok |-> TRUE, json |-> j]

\* GET https://openlibrary.org/isbn/{isbn}.json
CatalogEdition(isbn) ==
    CASE isbn = IsbnNodeB -> Found([works |-> <<"/works/OL1W">>])
      [] isbn = IsbnKnoten -> Found([works |-> <<"/works/OL2W">>])
      [] isbn = IsbnArk -> Found([works |-> <<"/works/OL3W">>])
      [] isbn = IsbnCat -> Found([works |-> <<>>])
      [] isbn = IsbnKnot -> Found([works |-> <<"/works/OL1W">>])
      [] OTHER -> NotFound

\* GET https://openlibrary.org{workKey}.json
CatalogWork(wk) ==
    CASE wk = "/works/OL1W" -> Found([wikidata |-> <<"Q1">>, links |-> <<>>])
      [] wk = "/works/OL2W" ->
            Found([wikidata |-> <<>>,
                   links |-> <<"https://example.org/b", "https://www.wikidata.org/wiki/q1">>])
      [] wk = "/works/OL3W" -> Found([wikidata |-> <<>>, links |-> <<>>])
      [] wk = "/works/OL4W" -> Found([wikidata |-> <<>>, links |-> <<>>])
      [] OTHER -> NotFound

\* GET https://openlibrary.org/search.json?q={query}&limit=6&fields=key,title,author_name
CatalogTitleSearch(query) ==
    CASE query = "The Node B Two AL X" ->
            Found([docs |-> <<[key |-> "/authors/OL9A", title |-> "Al X", author_name |-> <<>>],
                              [key |-> "/works/OL5W", title |-> "Node B Two",
                               author_name |-> <<"Al X">>]>>])
      [] query = "Dune Bo" ->
            Found([docs |-> <<[key |-> "/works/OL8W", title |-> "Dune Messiah",
                               author_name |-> <<"Someone Else">>]>>])
      [] OTHER -> Found([docs |-> <<>>])

\* GET https://www.wikidata.org/w/api.php?action=wbsearchentities&language={lang}&search={t}
CatalogWikidataSearch(t, lang) ==
    CASE t = "Node B" /\ lang = "en" ->
            Found([search |-> <<[id |-> "Q5", label |-> "Node", description |-> "software"],
                                [id |-> "Q1", label |-> "Node B",
                                 description |-> "novel by Al X"]>>])
      [] t = "Knoten B" /\ lang = "de" ->
            Found([search |-> <<[id |-> "Q1", label |-> "Knoten B",
                                 description |-> "Roman von A. X"]>>])
      [] t = "Knot" /\ lang = "en" ->
            Found([search |-> <<[id |-> "Q1", label |-> "Knot",
                                 description |-> "novel by Al X"]>>])
      [] t = "The Ark" /\ lang = "en" ->
            Found([search |-> <<[id |-> "Q7", label |-> "Ark", description |-> "boat"]>>])
      [] OTHER -> Found([search |-> <<>>])

WIKIDATA_LANGS == <<"en", "de", "es", "fr">>

(***************************************************************************)
(* fetchJson and the network-backed resolvers.                             *)
(*                                                                         *)
(* net = [fails, kind, n]: n counts the network calls made so far in the    *)
(* current step, fails is the set of call ordinals that fail and kind is   *)
(* how they fail (transport error, timeout, bad status).  A resolver gives *)
(*   [val, threw, c, n, failed] : its value, whether it threw, the caches  *)
(*   after it, the call count after it, whether a call it made failed.     *)
(***************************************************************************)
\* fetchJson: throws on a transport error, on the abort of the timeout and on
\* a status that is not ok; else returns the parsed body
fetchJson(answer, net) ==
    LET k == net.n + 1
        outcome == IF k \in net.fails THEN net.kind
                   ELSE IF answer.ok THEN "ok" ELSE "status"
    IN  IF outcome \in {"transport", "timeout", "status"}
        THEN [threw |-> TRUE, json |-> Null, n |-> k]
        ELSE [threw |-> FALSE, json |-> answer.json, n |-> k]

MapHas(m, k) == k \in DOMAIN m
MapSet(m, k, v) == (k :> v) @@ m
Ret(val, c, n, failed) ==
    [val |-> val, threw |-> FALSE, c |-> c, n |-> n, failed |-> failed]

Thrown(c, n) ==
    [val |-> Null, threw |-> TRUE, c |-> c, n |-> n, failed |-> TRUE]

\* the catch block of openLibraryIsbnToWorkKey: cache null, return null
IsbnToWorkKeyRethrow(c, key, n) == Thrown(c, n)

IsbnToWorkKeyCatch(c, key, n) ==
    Ret(Null, [c EXCEPT !.olIsbnWork = MapSet(@, key, Null)], n, TRUE)

openLibraryIsbnToWorkKey(c, isbn, net) ==
    LET key == trim(isbn)
    IN  IF key = "" THEN Ret(Null, c, net.n, FALSE)
        ELSE IF MapHas(c.olIsbnWork, key) THEN Ret(c.olIsbnWork[key], c, net.n, FALSE)
        ELSE LET f == fetchJson(CatalogEdition(key), net)
             IN  IF f.threw THEN IsbnToWorkKeyCatch(c, key, f.n)
                 ELSE LET works == f.json.works
                          out == IF Len(works) > 0 THEN works[1] ELSE Null
                      IN  Ret(out, [c EXCEPT !.olIsbnWork = MapSet(@, key, out)], f.n, FALSE)

IsDigit(ch) == ch \in DigitSet

RECURSIVE DigitRun(_, _)
\* the maximal run of digits of s starting at position i
DigitRun(s, i) ==
    IF i <= Len(s) /\ IsDigit(Char(s, i)) THEN Char(s, i) \o DigitRun(s, i + 1) ELSE ""

RECURSIVE QidFrom(_, _)
QidFrom(s, i) ==
    IF i > Len(s) THEN Null
    ELSE IF Char(s, i) \in {"Q", "q"} /\ DigitRun(s, i + 1) # ""
         THEN "Q" \o DigitRun(s, i + 1)
         ELSE QidFrom(s, i + 1)

\* raw.match(/Q\d+/i), upper-cased
extractWikidataQid(raw) == QidFrom(trim(raw), 1)

RECURSIVE FirstQid(_, _)
\* the first element of a list of strings that holds a Q-id, or null
FirstQid(list, i) ==
    IF i > Len(list) THEN Null
    ELSE IF extractWikidataQid(list[i]) # Null THEN extractWikidataQid(list[i])
    ELSE FirstQid(list, i + 1)

WorkToWikidataCatch(c, wk, n) ==
    Ret(Null, [c EXCEPT !.workWikidata = MapSet(@, wk, Null)], n, TRUE)

openLibraryWorkToWikidataQid(c, workKey, net) ==
    LET wk == trim(IF workKey = Null THEN "" ELSE workKey)
    IN  IF wk = "" THEN Ret(Null, c, net.n, FALSE)
        ELSE IF MapHas(c.workWikidata, wk) THEN Ret(c.workWikidata[wk], c, net.n, FALSE)
        ELSE LET f == fetchJson(CatalogWork(wk), net)
             IN  IF f.threw THEN WorkToWikidataCatch(c, wk, f.n)
                 ELSE LET q1 == FirstQid(f.json.wikidata, 1)
                          q2 == FirstQid(f.json.links, 1)
                          q == IF q1 # Null THEN q1 ELSE q2
                      IN  Ret(q, [c EXCEPT !.workWikidata = MapSet(@, wk, q)], f.n, FALSE)

WikidataMinScore == 3

\* the score of one search hit against the title and the author
WikidataItemScore(item, t, authorNeedle, authorLast) ==
    LET label == norm(item.label)
        desc == norm(item.description)
        blob == label \o " " \o desc
        tk == titleTokenKey(t)
        first == split(tk, " ")[1]
    IN  (IF tk # "" /\ includes(label, first) THEN 2 ELSE 0)
      + (IF includes(desc, "novel") \/ includes(desc, "book") \/ includes(desc, "roman")
            THEN 2 ELSE 0)
      + (IF authorNeedle # "" /\ includes(blob, authorNeedle) THEN 3 ELSE 0)
      + (IF authorLast # "" /\ includes(blob, authorLast) THEN 2 ELSE 0)

NoBest == [id |-> Null, score |-> 0]

RECURSIVE WikidataBest(_, _, _, _, _, _)
\* the first hit with the highest score among those that carry a Q-id
WikidataBest(arr, i, best, t, authorNeedle, authorLast) ==
    IF i > Len(arr) THEN best
    ELSE LET id == extractWikidataQid(arr[i].id)
             sc == WikidataItemScore(arr[i], t, authorNeedle, authorLast)
         IN  IF id = Null THEN WikidataBest(arr, i + 1, best, t, authorNeedle, authorLast)
             ELSE IF best.id = Null \/ sc > best.score
                  THEN WikidataBest(arr, i + 1, [id |-> id, score |-> sc],
                                    t, authorNeedle, authorLast)
                  ELSE WikidataBest(arr, i + 1, best, t, authorNeedle, authorLast)

WikidataTitleAuthorKey(t, a) ==
    primaryAuthorKey(a) \o "|" \o (IF titleTokenKey(t) # "" THEN titleTokenKey(t) ELSE norm(t))

WikidataCatch(c, key, n) ==
    Ret(Null, [c EXCEPT !.wikidataTitleAuthor = MapSet(@, key, Null)], n, TRUE)

RECURSIVE WikidataLangLoop(_, _, _, _, _, _)
\* for (const lang of WIKIDATA_LANGS) ... inside the try
WikidataLangLoop(c, key, t, a, li, net) ==
    IF li > Len(WIKIDATA_LANGS)
    THEN Ret(Null, [c EXCEPT !.wikidataTitleAuthor = MapSet(@, key, Null)], net.n, FALSE)
    ELSE LET f == fetchJson(CatalogWikidataSearch(t, WIKIDATA_LANGS[li]), net)
             net2 == [net EXCEPT !.n = f.n]
         IN  IF f.threw THEN WikidataCatch(c, key, f.n)
             ELSE LET best == WikidataBest(f.json.search, 1, NoBest, t, primaryAuthorKey(a),
                                           norm(authorLastName(pickPrimaryAuthor(a))))
                  IN  IF best.id # Null /\ best.score >= WikidataMinScore
                      THEN Ret(best.id,
                               [c EXCEPT !.wikidataTitleAuthor = MapSet(@, key, best.id)],
                               f.n, FALSE)
                      ELSE WikidataLangLoop(c, key, t, a, li + 1, net2)

wikidataWorkQidByTitleAuthor(c, title, authors, net) ==
    LET t == trim(title)
        a == trim(authors)
        key == WikidataTitleAuthorKey(t, a)
    IN  IF t = "" THEN Ret(Null, c, net.n, FALSE)
        ELSE IF MapHas(c.wikidataTitleAuthor, key)
             THEN Ret(c.wikidataTitleAuthor[key], c, net.n, FALSE)
        ELSE WikidataLangLoop(c, key, t, a, 1, net)

workKeyFromDoc(doc) ==
    IF doc.key # Null /\ Len(doc.key) >= 7 /\ SubSeq(doc.key, 1, 7) = "/works/"
    THEN doc.key ELSE Null

AuthorsFromDocMax == 3

authorsFromDoc(doc) == join(slice(doc.author_name, AuthorsFromDocMax), ", ")

RECURSIVE FirstStrictMatch(_, _, _, _)
FirstStrictMatch(docs, i, t, targetAuthor) ==
    IF i > Len(docs) THEN Null
    ELSE LET d == docs[i]
             wk == workKeyFromDoc(d)
             candAuthor == primaryAuthorKey(authorsFromDoc(d))
             candTitle == trim(d.title)
         IN  IF \/ wk = Null
                \/ (targetAuthor # "" /\ candAuthor # "" /\ targetAuthor # candAuthor)
                \/ candTitle = ""
                \/ (~isTitleNearDuplicateSameAuthor(t, candTitle)
                      /\ titleTokenKey(t) # titleTokenKey(candTitle))
             THEN FirstStrictMatch(docs, i + 1, t, targetAuthor)
             ELSE wk

RECURSIVE FirstWorkKey(_, _)
FirstWorkKey(docs, i) ==
    IF i > Len(docs) THEN Null
    ELSE IF workKeyFromDoc(docs[i]) # Null THEN workKeyFromDoc(docs[i])
    ELSE FirstWorkKey(docs, i + 1)

TitleAuthorCatch(c, n) == Ret(Null, c, n, TRUE)

openLibraryWorkKeyByTitleAuthor(c, title, authors, net) ==
    LET t == trim(title)
        a == trim(authors)
        query == join(FilterNonEmpty(<<t, a>>), " ")
    IN  IF t = "" THEN Ret(Null, c, net.n, FALSE)
        ELSE LET f == fetchJson(CatalogTitleSearch(query), net)
             IN  IF f.threw THEN TitleAuthorCatch(c, f.n)
                 ELSE LET strict == FirstStrictMatch(f.json.docs, 1, t, primaryAuthorKey(authors))
                      IN  Ret(IF strict # Null THEN strict ELSE FirstWorkKey(f.json.docs, 1),
                              c, f.n, FALSE)

\* the fallbacks of resolveCanonicalKey after the title and author lookup r2
CanonicalKeyAfterWikidata(r1, r2, workKey, ak, tk) ==
    IF r2.threw THEN r2
    ELSE [r2 EXCEPT !.failed = r1.failed \/ r2.failed,
                    !.val = IF r2.val # Null THEN "wd:" \o r2.val
                            ELSE IF workKey # Null /\ workKey # "" THEN "ol:" \o workKey
                            ELSE IF tk # "" THEN "na:" \o ak \o "|" \o tk
                            ELSE Null]

\* resolveCanonicalKey after the lookup r1 of the work's Wikidata id
CanonicalKeyAfterWork(r1, workKey, title, authors, net) ==
    IF r1.threw THEN r1
    ELSE IF r1.val # Null THEN [r1 EXCEPT !.val = "wd:" \o r1.val]
    ELSE CanonicalKeyAfterWikidata(
             r1,
             wikidataWorkQidByTitleAuthor(r1.c, title, authors, [net EXCEPT !.n = r1.n]),
             workKey, primaryAuthorKey(authors), titleTokenKey(title))

resolveCanonicalKey(c, workKey, title, authors, net) ==
    CanonicalKeyAfterWork(
        IF workKey # Null /\ workKey # ""
        THEN openLibraryWorkToWikidataQid(c, workKey, net)
        ELSE Ret(Null, c, net.n, FALSE),
        workKey, title, authors, net)

(***************************************************************************)
(* The resolvers called on their own, against caches of any earlier calls  *)
(***************************************************************************)
FailKinds == {"transport", "timeout", "status"}

ResolverIsbns == {IsbnNodeB, " " \o IsbnArkTwo, ""}
ResolverWorkKeys == {"/works/OL2W", "/works/OL7W"}
ResolverTitleAuthors ==
    {<<"Node B", "Al X">>, <<"The Ark", "?">>, <<"The Node B Two", "AL X">>, <<"", "Al X">>}

\* how the calls of one resolver call go: all reach the catalog, or the k-th
\* fails in one of the three ways
NetOutcomes ==
    {<<{}, "transport">>} \cup {<<{k}, kind>> : k \in 1..Len(WIKIDATA_LANGS), kind \in FailKinds}

Net(fails, kind) == [fails |-> fails, kind |-> kind, n |-> 0]

Record(fn, r, fails, kind) ==
    LET failed == r.failed \/ (fails \cap 1..r.n) # {}
    IN  [fn |-> fn, val |-> r.val, threw |-> r.threw, calls |-> r.n,
         kind |-> IF (fails \cap 1..r.n) # {} THEN kind
                  ELSE IF failed THEN "status" ELSE "none",
         failed |-> failed]

CallIsbnToWorkKey(isbn, fails, kind) ==
    LET r == openLibraryIsbnToWorkKey(caches, isbn, Net(fails, kind))
    IN  /\ rc' = Record("openLibraryIsbnToWorkKey", r, fails, kind)
        /\ caches' = r.c
        /\ UNCHANGED <<pm, req, h, resp, searches>>

CallWorkToWikidataQid(wk, fails, kind) ==
    LET r == openLibraryWorkToWikidataQid(caches, wk, Net(fails, kind))
    IN  /\ rc' = Record("openLibraryWorkToWikidataQid", r, fails, kind)
        /\ caches' = r.c
        /\ UNCHANGED <<pm, req, h, resp, searches>>

CallWikidataByTitleAuthor(title, authors, fails, kind) ==
    LET r == wikidataWorkQidByTitleAuthor(caches, title, authors, Net(fails, kind))
    IN  /\ rc' = Record("wikidataWorkQidByTitleAuthor", r, fails, kind)
        /\ caches' = r.c
        /\ UNCHANGED <<pm, req, h, resp, searches>>

CallWorkKeyByTitleAuthor(title, authors, fails, kind) ==
    LET r == openLibraryWorkKeyByTitleAuthor(caches, title, authors, Net(fails, kind))
    IN  /\ rc' = Record("openLibraryWorkKeyByTitleAuthor", r, fails, kind)
        /\ caches' = r.c
        /\ UNCHANGED <<pm, req, h, resp, searches>>

ResolverInit ==
    /\ caches = EmptyCaches
    /\ rc = NoCall
    /\ pm = PmIdle
    /\ req = Null
    /\ h = Null
    /\ resp = Null
    /\ searches = ScIdle

ResolverNext ==
    \E o \in NetOutcomes :
        \/ \E isbn \in ResolverIsbns : CallIsbnToWorkKey(isbn, o[1], o[2])
        \/ \E wk \in ResolverWorkKeys : CallWorkToWikidataQid(wk, o[1], o[2])
        \/ \E ta \in ResolverTitleAuthors :
               CallWikidataByTitleAuthor(ta[1], ta[2], o[1], o[2])
        \/ \E ta \in ResolverTitleAuthors :
               CallWorkKeyByTitleAuthor(ta[1], ta[2], o[1], o[2])

SpecResolvers == ResolverInit /\ [][ResolverNext]_vars

\* C10: a network-backed resolver whose network call failed (transport error,
\* timeout or non-success status) returned null and did not throw
C10_ResolversDegradeToNull ==
    rc.failed => (~rc.threw /\ rc.val = Null)

\* the title+author cross-reference search timed out on its second language
C10_Witness ==
    /\ rc.fn = "wikidataWorkQidByTitleAuthor"
    /\ rc.kind = "timeout"
    /\ rc.calls = 2
    /\ rc.failed
    /\ rc.val = Null

\* a call that reaches the catalog and the identity source
Reached == Net({}, "transport")

\* C26: whatever calls were made before on the shared caches, and however
\* they went, every value an identity cache holds is the value a lookup of
\* its key with empty caches gets from the catalog
C26_CachedEqualsCatalog ==
    /\ \A isbn \in DOMAIN caches.olIsbnWork :
           caches.olIsbnWork[isbn] = openLibraryIsbnToWorkKey(EmptyCaches, isbn, Reached).val
    /\ \A wk \in DOMAIN caches.workWikidata :
           caches.workWikidata[wk] = openLibraryWorkToWikidataQid(EmptyCaches, wk, Reached).val
    /\ \A ta \in ResolverTitleAuthors :
           LET key == WikidataTitleAuthorKey(trim(ta[1]), trim(ta[2]))
           IN  MapHas(caches.wikidataTitleAuthor, key)
                   => caches.wikidataTitleAuthor[key]
                        = wikidataWorkQidByTitleAuthor(EmptyCaches, ta[1], ta[2], Reached).val

(***************************************************************************)
(* resolveCanonicalKey called on its own                                   *)
(***************************************************************************)
CanonicalWorkKeys == {Null, "/works/OL1W", "/works/OL2W", "/works/OL3W", "/works/OL7W"}
CanonicalTitleAuthors == ResolverTitleAuthors \cup {<<"The", "Al X">>, <<"Knoten B", "A. X">>}

\* calls go on while the caches of the process hold fewer entries than this
MaxCanonicalCached == 2

CachedEntries == Cardinality(DOMAIN caches.workWikidata \cup DOMAIN caches.wikidataTitleAuthor)

CallResolveCanonicalKey(workKey, title, authors, fails, kind) ==
    LET r == resolveCanonicalKey(caches, workKey, title, authors, Net(fails, kind))
    IN  /\ CachedEntries < MaxCanonicalCached
        /\ rc' = Record("resolveCanonicalKey", r, fails, kind)
                    @@ [args |-> <<workKey, title, authors>>]
        /\ caches' = r.c
        /\ UNCHANGED <<pm, req, h, resp, searches>>

CanonicalNext ==
    \E o \in NetOutcomes, wk \in CanonicalWorkKeys, ta \in CanonicalTitleAuthors :
        CallResolveCanonicalKey(wk, ta[1], ta[2], o[1], o[2])

SpecCanonical == ResolverInit /\ [][CanonicalNext]_vars

\* the key the order of preference gives when every lookup reaches the catalog
PreferredKey(workKey, title, authors, workQid, titleQid) ==
    IF workKey # Null /\ workQid # Null THEN "wd:" \o workQid
    ELSE IF titleQid # Null THEN "wd:" \o titleQid
    ELSE IF workKey # Null THEN "ol:" \o workKey
    ELSE "na:" \o primaryAuthorKey(authors) \o "|" \o titleTokenKey(title)

PreferredKeyOf(workKey, title, authors) ==
    PreferredKey(workKey, title, authors,
                 IF workKey = Null THEN Null
                 ELSE openLibraryWorkToWikidataQid(EmptyCaches, workKey, Net({}, "transport")).val,
                 wikidataWorkQidByTitleAuthor(EmptyCaches, title, authors,
                                              Net({}, "transport")).val)

\* C22: resolveCanonicalKey never returns null, and a call in a fresh process
\* none of whose lookups fails returns wd:{id} of the work key's
\* cross-reference, else wd:{id} of the title and author search's best match of
\* score 3 or more, else ol:{workKey}, else na:{author}|{titleTokenKey}
C22_CanonicalKeyPreference ==
    /\ [](rc.fn = "resolveCanonicalKey" => rc.val # Null)
    /\ [][(rc'.fn = "resolveCanonicalKey" /\ caches = EmptyCaches /\ ~rc'.failed)
          => rc'.val = PreferredKeyOf(rc'.args[1], rc'.args[2], rc'.args[3])]_vars

(***************************************************************************)
(* The recommendation handler: the request and the library                 *)
(***************************************************************************)
MAX_RECS_PER_PRIMARY_AUTHOR == 3
PREFERENCE_LIKE_BOOST == 8
GERMAN_SCORE_BONUS == 4
DefaultLimit == 15
LargeLimit == 20
DefaultMinRating == 4
MaxRating == 10
TopSubjectsMax == 6
TopAuthorsMax == 3
ReasonsMax == 3
LIBRARY_TAKE == 500
PREFERENCE_TAKE == 1000

\* a rating column that is null
NoRating == 0 - 1

\* library rows (LibraryEntry); subjects is the parsed list of the column
EntryNodeB ==
    [id |-> 1, isbn |-> IsbnNodeB, title |-> "Node B", authors |-> "Al X",
     status |-> "read", rating |-> 9, subjects |-> <<"grief", "fiction">>]
EntryArk ==
    [id |-> 2, isbn |-> IsbnArk, title |-> "The Ark", authors |-> "?",
     status |-> "read", rating |-> 8, subjects |-> <<>>]
EntryCat ==
    [id |-> 3, isbn |-> IsbnCat, title |-> "Cat", authors |-> "Bo",
     status |-> "read", rating |-> NoRating, subjects |-> <<"grief">>]
EntryElm ==
    [id |-> 4, isbn |-> "9780000000007", title |-> "Elm", authors |-> "Al X, Bo",
     status |-> "reading", rating |-> 9, subjects |-> <<>>]

\* search documents (OpenLibraryDoc) with what scoreCandidate and isGermanDoc
\* make of them: score, reasons, german
DocNodeB ==
    [key |-> "/works/OL1W", title |-> "Node B", author_name |-> <<"Al X">>,
     isbn |-> <<IsbnNodeB>>, score |-> 40, german |-> FALSE,
     reasons |-> <<"Story", "Themen", "Autor">>]
DocKnoten ==
    [key |-> "/works/OL2W", title |-> "Knoten B", author_name |-> <<"A. X">>,
     isbn |-> <<"0-00-000000-2", "978-0-00-000000-2">>, score |-> 30, german |-> TRUE,
     reasons |-> <<"Story", "Themen">>]
DocArkTwo ==
    [key |-> "/works/OL4W", title |-> "Ark Two", author_name |-> <<>>,
     isbn |-> <<IsbnArkTwo>>, score |-> 20, german |-> FALSE, reasons |-> <<"Themen">>]
DocNodeBTwo ==
    [key |-> Null, title |-> "The Node B Two", author_name |-> <<"AL X">>,
     isbn |-> <<IsbnNodeBTwo>>, score |-> 50, german |-> FALSE, reasons |-> <<"Autor">>]
DocGato ==
    [key |-> "/works/OL9W", title |-> "Gato", author_name |-> <<"Bo Z">>,
     isbn |-> <<IsbnCat>>, score |-> 25, german |-> FALSE, reasons |-> <<"Themen">>]
\* an edition of the work of Node B that the search lists under a work key of
\* its own, and a title the identity source knows without its article
DocKnot ==
    [key |-> "/works/OL7W", title |-> "Knot", author_name |-> <<"Al X">>,
     isbn |-> <<IsbnKnot>>, score |-> 35, german |-> FALSE, reasons |-> <<"Autor">>]
DocTheKnot ==
    [key |-> "/works/OL7W", title |-> "The Knot", author_name |-> <<"Al X">>,
     isbn |-> <<"9780000000010">>, score |-> 34, german |-> FALSE, reasons |-> <<"Autor">>]
\* other printings of owned books: the owned author and title, an identifier
\* of their own and no work key
DocNodeBReprint ==
    [key |-> Null, title |-> "Node B", author_name |-> <<"Al X">>,
     isbn |-> <<"9780000000015">>, score |-> 22, german |-> FALSE, reasons |-> <<"Autor">>]
DocArkReprint ==
    [key |-> Null, title |-> "The Ark", author_name |-> <<>>,
     isbn |-> <<"9780000000016">>, score |-> 21, german |-> FALSE, reasons |-> <<"Themen">>]
\* an edition of the work of The Ark under another title and an author of its own
DocArkWork ==
    [key |-> "/works/OL3W", title |-> "Gatto", author_name |-> <<"Bo Z">>,
     isbn |-> <<"9780000000053">>, score |-> 27, german |-> FALSE, reasons |-> <<"Themen">>]
DocUnscored ==
    [key |-> "/works/OL1W", title |-> "Node B", author_name |-> <<"Al X">>,
     isbn |-> <<"9780000000008">>, score |-> 0, german |-> FALSE, reasons |-> <<>>]

\* documents of one author each, with titles that are no near-duplicates
CapDoc(author, title, isbn, score) ==
    [key |-> Null, title |-> title, author_name |-> author, isbn |-> <<isbn>>,
     score |-> score, german |-> FALSE, reasons |-> <<"Themen">>]

CapDocs ==
    << CapDoc(<<"Bo">>, "Dune", "9780000000011", 19),
       CapDoc(<<>>, "Gnu", "9780000000021", 18),
       CapDoc(<<"Bo">>, "Elm", "9780000000012", 17),
       CapDoc(<<>>, "Hen", "9780000000022", 16),
       CapDoc(<<"Bo">>, "Fig", "9780000000013", 15),
       CapDoc(<<>>, "Ibis", "9780000000023", 14),
       CapDoc(<<"Bo">>, "Cat", "9780000000014", 13),
       CapDoc(<<>>, "Ark Two", "9780000000024", 12) >>

\* a German and another edition under one title, neither with a work key
DocGnuGerman == [CapDoc(<<>>, "Gnu", "9780000000031", 10) EXCEPT !.german = TRUE]
DocGnuOther == CapDoc(<<>>, "Gnu", "9780000000021", 18)

Digit(d) == SubSeq("0123456789", d + 1, d + 1)

\* a candidate of its own work, title and isbn, by no author
ManyDoc(i) ==
    [key |-> "/works/OL9" \o Digit(i \div 10) \o Digit(i % 10) \o "W", title |-> ManyTitles[i],
     author_name |-> <<>>, isbn |-> <<"97800000009" \o Digit(i \div 10) \o Digit(i % 10)>>,
     score |-> 60 - i, german |-> FALSE, reasons |-> <<"Themen">>]

ManyDocs(n) == [i \in 1..n |-> ManyDoc(i)]

MaxManyDocs == 21

MaxEntries == 2
MaxDocs == 4

RECURSIVE PickIdx(_, _, _)
\* the elements of pool at the positions of S, in pool order
PickIdx(pool, S, i) ==
    IF i > Len(pool) THEN <<>>
    ELSE (IF i \in S THEN <<pool[i]>> ELSE <<>>) \o PickIdx(pool, S, i + 1)

SubLists(pool, n) ==
    {PickIdx(pool, S, 1) : S \in {T \in SUBSET (1..Len(pool)) : Cardinality(T) <= n}}

\* stored preference events, oldest first
EventChoices ==
    { <<>>,
      <<[workKey |-> "na:a x|knoten b", event |-> "pref_dislike"]>>,
      <<[workKey |-> "ol:/works/OL2W", event |-> "pref_like"],
        [workKey |-> "isbn:9780000000002", event |-> "pref_like"],
        [workKey |-> " ol:/works/OL2W", event |-> "pref_dislike"],
        [workKey |-> "isbn:9780000000004", event |-> "pref_like"]>> }

BaseRequest ==
    [user |-> TRUE, limitParam |-> DefaultLimit, minRating |-> DefaultMinRating,
     seedMode |-> "liked", selectedSeedIds |-> {}, db |-> "ok", prefStore |-> "ok",
     netFails |-> {}, again |-> "no",
     entries |-> <<EntryNodeB>>, events |-> <<>>, docs |-> <<>>]

\* libraries against candidates that are editions, translations and variants
DedupRequests ==
    { [BaseRequest EXCEPT !.entries = lib, !.docs = ds, !.events = ev] :
        lib \in SubLists(<<EntryNodeB, EntryArk, EntryCat>>, MaxEntries),
        ds \in SubLists(<<DocNodeBTwo, DocNodeB, DocKnoten, DocGato, DocArkTwo>>, MaxDocs - 1),
        ev \in EventChoices }

\* one liked entry against many candidates of one author, or of none
CapRequests ==
    { [BaseRequest EXCEPT !.docs = ds] : ds \in SubLists(CapDocs, MaxDocs) }

\* the other request parameters and the failures of the stores
EdgeRequests ==
    { [BaseRequest EXCEPT !.user = FALSE],
      [BaseRequest EXCEPT !.db = "error"],
      [BaseRequest EXCEPT !.prefStore = "P2021", !.docs = <<DocKnoten>>,
                          !.events = <<[workKey |-> "ol:/works/OL2W",
                                        event |-> "pref_dislike"]>>],
      [BaseRequest EXCEPT !.prefStore = "error", !.docs = <<DocKnoten>>],
      [BaseRequest EXCEPT !.prefStore = "error", !.entries = <<EntryCat>>],
      [BaseRequest EXCEPT !.docs = <<DocNodeBReprint, DocNodeB>>],
      [BaseRequest EXCEPT !.entries = <<EntryArk>>, !.docs = <<DocArkReprint>>],
      [BaseRequest EXCEPT !.entries = <<EntryArk>>, !.docs = <<DocArkWork, DocKnoten>>],
      [BaseRequest EXCEPT !.limitParam = LargeLimit, !.docs = <<DocKnoten, DocUnscored>>],
      [BaseRequest EXCEPT !.docs = <<DocGnuOther, DocGnuGerman>>],
      [BaseRequest EXCEPT !.docs = <<DocGato, DocArkTwo>>,
                          !.events = <<[workKey |-> "ol:/works/OL4W",
                                        event |-> "pref_like"]>>],
      [BaseRequest EXCEPT !.seedMode = "allRead", !.entries = <<EntryCat, EntryElm>>,
                          !.docs = <<DocKnoten>>],
      [BaseRequest EXCEPT !.seedMode = "allRead", !.entries = <<EntryElm>>,
                          !.docs = <<DocKnoten>>],
      [BaseRequest EXCEPT !.selectedSeedIds = {2}, !.entries = <<EntryNodeB, EntryArk>>,
                          !.docs = <<DocKnoten, DocArkTwo>>],
      [BaseRequest EXCEPT !.selectedSeedIds = {3}, !.entries = <<EntryNodeB, EntryCat>>,
                          !.docs = <<DocKnoten>>] }

\* network calls of the request fail: any of the first MaxFailedCall, or all
MaxFailedCall == 4
MaxCalls == 64
AllCalls == 1..MaxCalls

FailureRequests ==
    { [BaseRequest EXCEPT !.entries = lib, !.docs = ds, !.netFails = fails] :
        lib \in {<<EntryNodeB>>, <<EntryArk, EntryNodeB>>},
        ds \in {<<DocNodeB, DocKnoten>>, <<DocNodeBTwo, DocArkTwo>>},
        fails \in (SUBSET (1..MaxFailedCall) \ {{}}) \cup {AllCalls} }

\* rows that are neither read nor rated
Filler(i) ==
    [id |-> 100 + i,
     isbn |-> "9781000000" \o Digit(i \div 100) \o Digit((i \div 10) % 10) \o Digit(i % 10),
     title |-> "Hen", authors |-> "Bo", status |-> "unread", rating |-> NoRating,
     subjects |-> <<>>]

\* a library of one row more than findMany takes, and one event more
LargeRequests ==
    { [BaseRequest EXCEPT
          !.entries = <<EntryNodeB>> \o [i \in 1..(LIBRARY_TAKE - 1) |-> Filler(i)]
                      \o <<EntryCat>>,
          !.docs = <<DocGato, CapDoc(<<"Bo">>, "Cat", "9780000000014", 13)>>],
      [BaseRequest EXCEPT
          !.events = <<[workKey |-> "ol:/works/OL2W", event |-> "pref_dislike"]>>
                     \o [i \in 1..PREFERENCE_TAKE |->
                            [workKey |-> "isbn:9780000000004", event |-> "pref_like"]],
          !.docs = <<DocKnoten>>] }

\* requests that are made a second time: straight after the first in the same
\* process, in a process whose caches hold what an earlier lookup left or whose
\* search cache is full of other searches, or after the search cache's TTL
AgainChoices == {"same", "failed", "other", "full", "late"}

AgainRequests ==
    { [BaseRequest EXCEPT !.again = a, !.docs = ds] :
        a \in AgainChoices,
        ds \in {<<DocKnot, DocKnoten>>, <<DocTheKnot>>, <<DocNodeBTwo, DocArkTwo>>} }

\* more candidates than the limit, as many, and fewer
LimitRequests ==
    { [BaseRequest EXCEPT !.limitParam = lp, !.docs = ManyDocs(n)] :
        lp \in {DefaultLimit, LargeLimit}, n \in {MaxManyDocs - 4, MaxManyDocs} }

Requests ==
    DedupRequests \cup CapRequests \cup EdgeRequests \cup FailureRequests \cup LargeRequests
    \cup AgainRequests \cup LimitRequests

(***************************************************************************)
(* computeProfile                                                          *)
(***************************************************************************)
GENERIC_SUBJECTS ==
    { "fiction", "fiction general", "general", "literature", "novel", "novels",
      "roman", "romance", "classic", "classics" }

isGenericSubject(subject) == NormOf(subject) \in GENERIC_SUBJECTS

clamp(n, a, b) == Max(a, Min(b, n))

\* parseSubjects on an array: trim every element, drop the empty ones
parseSubjects(raw) == FilterNonEmpty([i \in 1..Len(raw) |-> trim(raw[i])])

IsLiked(e, minRating) ==
    e.status = "read" /\ e.rating # NoRating /\ e.rating >= minRating

\* Map.set(k, (Map.get(k) || 0) + w) on an insertion-ordered list of pairs
RECURSIVE AddWeight(_, _, _)
AddWeight(m, k, w) ==
    IF Len(m) = 0 THEN <<[k |-> k, w |-> w]>>
    ELSE IF m[1].k = k THEN <<[k |-> k, w |-> m[1].w + w]>> \o Tail(m)
    ELSE <<m[1]>> \o AddWeight(Tail(m), k, w)

\* the weights are held times 20, so that the factor 0.15 is the integer 3
WeightScale == 20
GenericWeight == 3

RECURSIVE AddWeights(_, _, _, _, _)
\* one liked entry's keys added with weight w, generic subjects at the reduced weight
AddWeights(m, keys, i, w, subjects) ==
    IF i > Len(keys) THEN m
    ELSE LET kw == IF subjects /\ isGenericSubject(keys[i])
                   THEN w * GenericWeight ELSE w * WeightScale
         IN  AddWeights(AddWeight(m, keys[i], kw), keys, i + 1, w, subjects)

RECURSIVE InsertByWeight(_, _)
\* the place a stable descending sort gives x among the sorted earlier elements
InsertByWeight(sorted, x) ==
    IF Len(sorted) = 0 THEN <<x>>
    ELSE IF sorted[1].w >= x.w THEN <<sorted[1]>> \o InsertByWeight(Tail(sorted), x)
    ELSE <<x>> \o sorted

RECURSIVE SortByWeightDesc(_)
\* Array.prototype.sort((a, b) => b.w - a.w): stable
SortByWeightDesc(m) ==
    IF Len(m) = 0 THEN <<>>
    ELSE InsertByWeight(SortByWeightDesc(SubSeq(m, 1, Len(m) - 1)), m[Len(m)])

EntryAuthors(e) ==
    FilterNonEmpty([i \in 1..Len(split(e.authors, ",")) |-> trim(split(e.authors, ",")[i])])

\* a weight that falls as the rating rises
RatingWeightFalling(rating, minRating) ==
    clamp(MaxRating + minRating - rating, minRating, MaxRating)

\* w = clamp(rating, minRating, 10)
RatingWeight(rating, minRating) == clamp(rating, minRating, MaxRating)

RECURSIVE ProfileWeights(_, _, _, _, _)
ProfileWeights(liked, i, minRating, subj, auth) ==
    IF i > Len(liked) THEN [subj |-> subj, auth |-> auth]
    ELSE LET e == liked[i]
             w == RatingWeight(e.rating, minRating)
         IN  ProfileWeights(liked, i + 1, minRating,
                            AddWeights(subj, parseSubjects(e.subjects), 1, w, TRUE),
                            AddWeights(auth, EntryAuthors(e), 1, w, FALSE))

computeProfile(entries, minRating) ==
    LET liked == SelectSeq(entries, LAMBDA e : IsLiked(e, minRating))
        ws == ProfileWeights(liked, 1, minRating, <<>>, <<>>)
    IN  [likedCount |-> Len(liked),
         topSubjects |-> slice(SortByWeightDesc(ws.subj), TopSubjectsMax),
         topAuthors |-> slice(SortByWeightDesc(ws.auth), TopAuthorsMax)]

\* seedEntries: the rows of the selected ids, or all rows
SeedEntries(entries, selectedSeedIds) ==
    IF selectedSeedIds # {}
    THEN SelectSeq(entries, LAMBDA e : e.id \in selectedSeedIds)
    ELSE entries

\* the early return of an empty profile
EmptyProfileNever(profile) == FALSE

EmptyProfile(profile) == profile.likedCount = 0

\* limit = requestedLimit >= 20 ? 20 : 15
EffectiveLimit(requested) == IF requested >= LargeLimit THEN LargeLimit ELSE DefaultLimit

(***************************************************************************)
(* buildOwnedKeys and the canonical keys of the library                    *)
(***************************************************************************)
MapGetOr(m, k, d) == IF MapHas(m, k) THEN m[k] ELSE d

\* the value of the first half of a loop, computed before the second half starts
Computed(x) == x = x

RECURSIVE Uniq(_, _, _, _)
\* the loops over the library halve their range, so that a library of
\* hundreds of rows is walked without deep recursion
Uniq(seq, lo, hi, acc) ==
    IF lo > hi THEN acc
    ELSE IF lo = hi THEN (IF seq[lo] \in Range(acc) THEN acc ELSE Append(acc, seq[lo]))
    ELSE LET left == Uniq(seq, lo, (lo + hi) \div 2, acc)
         IN  IF Computed(left) THEN Uniq(seq, (lo + hi) \div 2 + 1, hi, left) ELSE acc

uniq(seq) == Uniq(seq, 1, Len(seq), <<>>)

(***************************************************************************)
(* buildStoryProfile                                                       *)
(***************************************************************************)
STORY_STOPWORDS ==
    { "fiction", "general", "novel", "book", "books", "story", "stories", "literature",
      "roman", "romane", "romanzo", "romance", "classic", "classics",
      "the", "and", "for", "with", "from", "into", "about", "that", "this", "have", "your",
      "der", "die", "das", "und", "mit", "von", "ein", "eine", "oder", "auch", "ueber",
      "del", "los", "las", "con", "para", "una", "uno", "por", "sobre",
      "le", "la", "les", "des", "avec", "dans", "pour", "une", "sur" }

\* Object.entries(MOTIF_LEXICON): the motifs in the order of the literal
MotifOrder ==
    << "coming_of_age", "mentorship", "friendship", "grief_loss", "self_discovery",
       "books_literary_world" >>

MOTIF_LEXICON ==
    [ coming_of_age |->
          { "coming", "age", "adolescent", "adolescence", "teen", "teenager", "youth",
            "young", "boy", "girl", "bildungsroman" },
      mentorship |->
          { "mentor", "teacher", "guide", "elder", "older", "old", "wisdom", "apprentice",
            "student", "master" },
      friendship |->
          { "friend", "friendship", "companionship", "companions", "buddy", "bond" },
      grief_loss |->
          { "grief", "loss", "bereavement", "mourning", "widow", "widower", "death",
            "dead", "illness", "cancer" },
      self_discovery |->
          { "journey", "search", "identity", "self", "meaning", "healing", "growth",
            "awakening", "solitude", "loneliness" },
      books_literary_world |->
          { "books", "book", "bookseller", "library", "writer", "author", "literary",
            "manuscript", "publisher" } ]

\* norm(kw) of every keyword, tabulated once
MotifKeywords == [m \in DOMAIN MOTIF_LEXICON |-> {NormOf(kw) : kw \in MOTIF_LEXICON[m]}]

StoryTermMinLength == 4

\* String(e.f || ""): a column the row does not carry reads as the empty text
FieldText(e, f) == IF f \in DOMAIN e THEN e[f] ELSE ""

\* textParts.filter(Boolean).join(" ")
StoryText(e) ==
    join(FilterNonEmpty(<<e.title, FieldText(e, "description"), FieldText(e, "notes"),
                          join(parseSubjects(e.subjects), " ")>>), " ")

EntryAtlas ==
    [id |-> 11, isbn |-> "9780000000041", title |-> "Atlas", authors |-> "Cy, Di, Ed",
     status |-> "read", rating |-> 10,
     subjects |-> <<"boats", "whales", "islands", "storms", "maps">>]
EntryTale ==
    [id |-> 12, isbn |-> "9780000000042", title |-> "Tale of a Friendship", authors |-> "Flo",
     status |-> "read", rating |-> 10, subjects |-> <<"fiction">>]
EntryWidow ==
    [id |-> 13, isbn |-> "9780000000043", title |-> "The Widow's Journey",
     authors |-> "Al X, Bo", status |-> "read", rating |-> 1,
     subjects |-> <<"fiction", " grief ">>, notes |-> "healing, slowly", description |-> ""]

\* the rows the libraries of the profile checks are made of
ProfilePool == <<EntryAtlas, EntryTale, EntryWidow, EntryNodeB, EntryCat>>

\* norm(input).split(" ").map(trim).filter(length >= 4).filter(not a stop word)
ExtractStoryTermsOf(input) ==
    SelectSeq([i \in 1..Len(split(norm(input), " ")) |-> trim(split(norm(input), " ")[i])],
              LAMBDA x : Len(x) >= StoryTermMinLength /\ x \notin STORY_STOPWORDS)

\* the story terms of the texts of the pool, tabulated once
StoryTermsTable ==
    [t \in {StoryText(ProfilePool[i]) : i \in DOMAIN ProfilePool} |-> ExtractStoryTermsOf(t)]

extractStoryTerms(input) ==
    IF input \in DOMAIN StoryTermsTable THEN StoryTermsTable[input]
    ELSE ExtractStoryTermsOf(input)

\* the motifs one of whose keywords is a story term of the text
extractMotifsFromText(input) ==
    SelectSeq(MotifOrder,
              LAMBDA m : MotifKeywords[m] \cap Range(extractStoryTerms(input)) # {})

RECURSIVE StoryWeights(_, _, _, _, _)
\* w = clamp(rating, minRating, 10) / 10, held times 10 * WeightScale
StoryWeights(liked, i, minRating, weights, motifWeights) ==
    IF i > Len(liked) THEN [weights |-> weights, motifWeights |-> motifWeights]
    ELSE StoryWeights(liked, i + 1, minRating,
                      AddWeights(weights, uniq(extractStoryTerms(StoryText(liked[i]))), 1,
                                 RatingWeight(liked[i].rating, minRating), FALSE),
                      AddWeights(motifWeights, extractMotifsFromText(StoryText(liked[i])), 1,
                                 RatingWeight(liked[i].rating, minRating), FALSE))

RECURSIVE SumWeights(_)
SumWeights(m) == IF Len(m) = 0 THEN 0 ELSE m[1].w + SumWeights(Tail(m))

TopTermsMax == 20
TopMotifsMax == 8
NormTermsMax == 10
NormMotifsMax == 4

\* sum of the top 10 term weights + 1.5 * sum of the top 4 motif weights, || 1;
\* held times 10 * WeightScale as the weights are
NormDenominator(topTerms, topMotifs) ==
    LET d == SumWeights(slice(topTerms, NormTermsMax))
             + (3 * SumWeights(slice(topMotifs, NormMotifsMax))) \div 2
    IN  IF d = 0 THEN 10 * WeightScale ELSE d

StoryProfileOf(ws, topTerms, topMotifs) ==
    [weights |-> ws.weights, topTerms |-> topTerms, motifWeights |-> ws.motifWeights,
     topMotifs |-> topMotifs, normDenominator |-> NormDenominator(topTerms, topMotifs)]

StoryProfileSorted(ws) ==
    StoryProfileOf(ws, slice(SortByWeightDesc(ws.weights), TopTermsMax),
                   slice(SortByWeightDesc(ws.motifWeights), TopMotifsMax))

buildStoryProfile(entries, minRating) ==
    StoryProfileSorted(StoryWeights(SelectSeq(entries, LAMBDA e : IsLiked(e, minRating)), 1,
                                    minRating, <<>>, <<>>))

(***************************************************************************)
(* The two profiles of a library before and after one rating is raised     *)
(***************************************************************************)
MaxProfileEntries == 4

ProfileLibraries == SubLists(ProfilePool, MaxProfileEntries)

MinRatingChoices == {1, DefaultMinRating}

\* ratings a row can be raised to, one of them above the scale
RatingChoices == {DefaultMinRating, 9, MaxRating, MaxRating + 1}

\* subjWeights and authWeights, the Profile and the StoryProfile of a library
ProfilesOf(entries, minRating) ==
    [weights |-> ProfileWeights(SelectSeq(entries, LAMBDA e : IsLiked(e, minRating)), 1,
                                minRating, <<>>, <<>>),
     profile |-> computeProfile(entries, minRating),
     story |-> buildStoryProfile(entries, minRating)]

\* the rating of the liked row i is raised to r and the profiles are built anew
RaiseRating(i, r) ==
    /\ IsLiked(req.entries[i], req.minRating)
    /\ r > req.entries[i].rating
    /\ req' = [req EXCEPT !.entries[i].rating = r]
    /\ h' = [raised |-> i, before |-> h.after,
             after |-> ProfilesOf(req'.entries, req.minRating)]
    /\ UNCHANGED <<pm, caches, rc, resp, searches>>

ProfileInit ==
    /\ req \in { [entries |-> lib, minRating |-> m] :
                    lib \in ProfileLibraries, m \in MinRatingChoices }
    /\ h = [raised |-> 0, before |-> ProfilesOf(req.entries, req.minRating),
            after |-> ProfilesOf(req.entries, req.minRating)]
    /\ pm = PmIdle
    /\ caches = EmptyCaches
    /\ rc = NoCall
    /\ resp = Null
    /\ searches = ScIdle

ProfileNext ==
    \E i \in 1..MaxProfileEntries, r \in RatingChoices : i <= Len(req.entries) /\ RaiseRating(i, r)

SpecProfile == ProfileInit /\ [][ProfileNext]_vars

\* Map.get(k) || 0 on a list of pairs
AccWeight(m, k) == SumWeights(SelectSeq(m, LAMBDA x : x.k = k))

RaisedEntry == req.entries[h.raised]

\* the weight of every key is at least in the list after what it is before
NotDecreased(keys, before, after) ==
    \A k \in Range(keys) : AccWeight(after, k) >= AccWeight(before, k)

NoOwnedTitles ==
    [ownedCanonical |-> {}, ownedTitlesByPrimaryAuthor |-> EmptyMap, ownedAuthorKeys |-> {}]

\* one pass of the loop over the entries that fills the author and title keys
OwnedTitlesStep(e, acc) ==
    LET title == trim(e.title)
        authorKey == primaryAuthorKey(e.authors)
        tKey == titleTokenKey(title)
        a1 == IF authorKey # ""
              THEN [acc EXCEPT !.ownedAuthorKeys = @ \cup {authorKey}] ELSE acc
        a2 == IF tKey = "" THEN a1
              ELSE [a1 EXCEPT !.ownedCanonical = @ \cup {authorKey \o "|" \o tKey}]
    IN  IF tKey = "" \/ authorKey = "" THEN a2
        ELSE [a2 EXCEPT !.ownedTitlesByPrimaryAuthor =
                 MapSet(@, authorKey, Append(MapGetOr(@, authorKey, <<>>), title))]

RECURSIVE OwnedTitles(_, _, _, _)
OwnedTitles(entries, lo, hi, acc) ==
    IF lo > hi THEN acc
    ELSE IF lo = hi THEN OwnedTitlesStep(entries[lo], acc)
    ELSE LET left == OwnedTitles(entries, lo, (lo + hi) \div 2, acc)
         IN  IF Computed(left) THEN OwnedTitles(entries, (lo + hi) \div 2 + 1, hi, left)
             ELSE acc

OwnedIsbnAdd(r, isbn, st) ==
    [c |-> r.c, n |-> r.n, threw |-> r.threw,
     wkByIsbn |-> IF r.threw THEN st.wkByIsbn ELSE MapSet(st.wkByIsbn, isbn, r.val)]

\* the mapper of the first pMapLimit of buildOwnedKeys on one isbn
OwnedIsbnLookup(isbn, net, st) ==
    IF st.threw THEN st
    ELSE OwnedIsbnAdd(openLibraryIsbnToWorkKey(st.c, isbn, [net EXCEPT !.n = st.n]), isbn, st)

RECURSIVE OwnedIsbnLookups(_, _, _, _, _)
\* pMapLimit(normalizedIsbns, 8, openLibraryIsbnToWorkKey): the isbns are
\* distinct, so the lookups touch distinct cache keys and their results do not
\* depend on how the workers interleave; they are taken in input order
OwnedIsbnLookups(isbns, lo, hi, net, st) ==
    IF lo > hi THEN st
    ELSE IF lo = hi THEN OwnedIsbnLookup(isbns[lo], net, st)
    ELSE LET left == OwnedIsbnLookups(isbns, lo, (lo + hi) \div 2, net, st)
         IN  IF left.threw THEN left
             ELSE OwnedIsbnLookups(isbns, (lo + hi) \div 2 + 1, hi, net, left)

OwnedFallbackAdd(r, st) ==
    [c |-> r.c, n |-> r.n, threw |-> r.threw,
     keys |-> IF r.val # Null THEN st.keys \cup {r.val} ELSE st.keys]

\* wkByIsbn.get(isbn) ?? null
WorkKeyOfIsbn(e, wkByIsbn) ==
    IF trim(e.isbn) # "" THEN MapGetOr(wkByIsbn, trim(e.isbn), Null) ELSE Null

\* the mapper of the second pMapLimit: the work key of the isbn, else of title
\* and author
OwnedFallbackLookup(e, net, wkByIsbn, st) ==
    IF st.threw THEN st
    ELSE IF WorkKeyOfIsbn(e, wkByIsbn) # Null
    THEN [st EXCEPT !.keys = @ \cup {WorkKeyOfIsbn(e, wkByIsbn)}]
    ELSE IF trim(e.title) = "" THEN st
    ELSE OwnedFallbackAdd(
             openLibraryWorkKeyByTitleAuthor(st.c, trim(e.title), trim(e.authors),
                                             [net EXCEPT !.n = st.n]),
             st)

RECURSIVE OwnedFallbackLookups(_, _, _, _, _, _)
\* pMapLimit(entries, 4, ...), in input order
OwnedFallbackLookups(entries, lo, hi, net, wkByIsbn, st) ==
    IF lo > hi THEN st
    ELSE IF lo = hi THEN OwnedFallbackLookup(entries[lo], net, wkByIsbn, st)
    ELSE LET left == OwnedFallbackLookups(entries, lo, (lo + hi) \div 2, net, wkByIsbn, st)
         IN  IF left.threw THEN left
             ELSE OwnedFallbackLookups(entries, (lo + hi) \div 2 + 1, hi, net, wkByIsbn, left)

\* buildOwnedKeys after both fan-outs
OwnedKeysOf(normalizedIsbns, titles, wkByIsbn, fallback) ==
    [ownedIsbn |-> Range(normalizedIsbns),
     ownedWork |-> ({wkByIsbn[k] : k \in DOMAIN wkByIsbn} \ {Null}) \cup fallback.keys,
     ownedCanonical |-> titles.ownedCanonical,
     ownedTitlesByPrimaryAuthor |-> titles.ownedTitlesByPrimaryAuthor,
     ownedAuthorKeys |-> titles.ownedAuthorKeys,
     c |-> fallback.c, n |-> fallback.n, threw |-> fallback.threw]

\* buildOwnedKeys after the first fan-out
OwnedKeysAfterIsbns(normalizedIsbns, byIsbn, entries, net) ==
    OwnedKeysOf(normalizedIsbns,
                OwnedTitles(entries, 1, Len(entries), NoOwnedTitles),
                byIsbn.wkByIsbn,
                OwnedFallbackLookups(entries, 1, Len(entries), net, byIsbn.wkByIsbn,
                                     [c |-> byIsbn.c, n |-> byIsbn.n,
                                      threw |-> byIsbn.threw, keys |-> {}]))

OwnedKeysFromIsbns(normalizedIsbns, c, entries, net) ==
    OwnedKeysAfterIsbns(
        normalizedIsbns,
        OwnedIsbnLookups(normalizedIsbns, 1, Len(normalizedIsbns), net,
                         [c |-> c, n |-> net.n, threw |-> FALSE, wkByIsbn |-> EmptyMap]),
        entries, net)

buildOwnedKeys(c, entries, net) ==
    OwnedKeysFromIsbns(
        uniq(FilterNonEmpty([i \in 1..Len(entries) |-> trim(entries[i].isbn)])),
        c, entries, net)

NoOwned ==
    [ownedIsbn |-> {}, ownedWork |-> {}, ownedCanonical |-> {},
     ownedTitlesByPrimaryAuthor |-> EmptyMap, ownedAuthorKeys |-> {}]

\* the end of one pass: the key r2 of the entry is added
OwnedCanonicalAdd(r2, st) ==
    [c |-> r2.c, n |-> r2.n, threw |-> r2.threw,
     keys |-> IF r2.val # Null THEN st.keys \cup {r2.val} ELSE st.keys]

\* one pass after the lookup r1 of the entry's work key
OwnedCanonicalAfterWork(r1, e, net, st) ==
    IF r1.threw THEN [st EXCEPT !.c = r1.c, !.n = r1.n, !.threw = TRUE]
    ELSE OwnedCanonicalAdd(
             resolveCanonicalKey(r1.c, r1.val, trim(e.title), trim(e.authors),
                                 [net EXCEPT !.n = r1.n]),
             st)

\* one pass of the loop that fills ownedCanonicalResolved
OwnedCanonicalStep(e, net, st) ==
    IF st.threw THEN st
    ELSE OwnedCanonicalAfterWork(
             IF trim(e.isbn) # ""
             THEN openLibraryIsbnToWorkKey(st.c, trim(e.isbn), [net EXCEPT !.n = st.n])
             ELSE Ret(Null, st.c, st.n, FALSE),
             e, net, st)

RECURSIVE OwnedCanonicalLoop(_, _, _, _, _)
OwnedCanonicalLoop(entries, lo, hi, net, st) ==
    IF lo > hi THEN st
    ELSE IF lo = hi THEN OwnedCanonicalStep(entries[lo], net, st)
    ELSE LET left == OwnedCanonicalLoop(entries, lo, (lo + hi) \div 2, net, st)
         IN  IF left.threw THEN left
             ELSE OwnedCanonicalLoop(entries, (lo + hi) \div 2 + 1, hi, net, left)

\* the canonical keys of the loaded entries
ownedCanonicalResolvedOf(c, entries, net) ==
    OwnedCanonicalLoop(entries, 1, Len(entries), net,
                       [c |-> c, n |-> net.n, threw |-> FALSE, keys |-> {}])

(***************************************************************************)
(* Preference signals                                                      *)
(***************************************************************************)
NoPrefs == [likedKeys |-> {}, dislikedKeys |-> {}]

\* findMany(orderBy createdAt desc, take 1000) over the events, stored oldest first
NewestRows(events) ==
    [i \in 1..Min(Len(events), PREFERENCE_TAKE) |-> events[Len(events) - i + 1]]

NoRows == [seen |-> {}, likedKeys |-> {}, dislikedKeys |-> {}]

\* one row of the loop: the first row of a key decides
PreferenceRow(row, st) ==
    LET key == trim(row.workKey)
    IN  IF key = "" \/ key \in st.seen THEN st
        ELSE [seen |-> st.seen \cup {key},
              likedKeys |-> IF row.event = "pref_like" THEN st.likedKeys \cup {key}
                            ELSE st.likedKeys,
              dislikedKeys |-> IF row.event = "pref_dislike" THEN st.dislikedKeys \cup {key}
                               ELSE st.dislikedKeys]

RECURSIVE PreferenceRows(_, _, _, _)
PreferenceRows(rows, lo, hi, st) ==
    IF lo > hi THEN st
    ELSE IF lo = hi THEN PreferenceRow(rows[lo], st)
    ELSE LET left == PreferenceRows(rows, lo, (lo + hi) \div 2, st)
         IN  IF Computed(left) THEN PreferenceRows(rows, (lo + hi) \div 2 + 1, hi, left)
             ELSE st

PreferenceSignalsOf(rows) ==
    LET st == PreferenceRows(rows, 1, Len(rows), NoRows)
    IN  [likedKeys |-> st.likedKeys, dislikedKeys |-> st.dislikedKeys]

\* store: "ok", "P2021" (the table is missing) or "error" (any other failure)
\* a catch block that takes every failure of the store for the missing table
IsAnyFailure(code) == TRUE

\* e?.code === "P2021"
IsMissingTable(code) == code = "P2021"

loadPreferenceSignals(events, store) ==
    IF store = "ok"
    THEN [threw |-> FALSE, signals |-> PreferenceSignalsOf(NewestRows(events))]
    ELSE IF IsMissingTable(store) THEN [threw |-> FALSE, signals |-> NoPrefs]
    ELSE [threw |-> TRUE, signals |-> NoPrefs]

buildPreferenceKeys(resolvedCanonicalKey, resolvedWorkKey, authorKey, tKey, isbn) ==
    (IF resolvedCanonicalKey # Null /\ resolvedCanonicalKey # ""
     THEN {resolvedCanonicalKey} ELSE {})
    \cup (IF resolvedWorkKey # Null /\ resolvedWorkKey # ""
          THEN {"ol:" \o resolvedWorkKey} ELSE {})
    \cup (IF authorKey # "" /\ tKey # "" THEN {"na:" \o authorKey \o "|" \o tKey} ELSE {})
    \cup (IF isbn # "" THEN {"isbn:" \o isbn} ELSE {})

(***************************************************************************)
(* The search queries, scoring and ordering of the candidates              *)
(***************************************************************************)
RECURSIVE KeepChars(_, _, _)
\* s.replace(/[^set]/g, "")
KeepChars(s, set, i) ==
    IF i > Len(s) THEN ""
    ELSE (IF Char(s, i) \in set THEN Char(s, i) ELSE "") \o KeepChars(s, set, i + 1)

Isbn13Length == 13
Isbn10Length == 10
Isbn10Set == DigitSet \cup {"X", "x"}

RECURSIVE FindIsbn(_, _, _, _)
\* isbns.find(x => x.replace(/[^set]/g, "").length === n)
FindIsbn(isbns, i, set, n) ==
    IF i > Len(isbns) THEN Null
    ELSE IF Len(KeepChars(isbns[i], set, 1)) = n THEN isbns[i]
    ELSE FindIsbn(isbns, i + 1, set, n)

bestIsbnFromDoc(doc) ==
    LET isbn13 == FindIsbn(doc.isbn, 1, DigitSet, Isbn13Length)
        isbn10 == FindIsbn(doc.isbn, 1, Isbn10Set, Isbn10Length)
        pick == IF isbn13 # Null THEN isbn13 ELSE isbn10
    IN  IF pick # Null THEN KeepChars(pick, Isbn10Set, 1) ELSE Null

\* the url of a search: the query and the limit are the parts of it that vary
SearchUrl(query, limit) == <<query, limit>>

\* subjectLimit = clamp(Math.ceil(limit), 10, 40)
SubjectLimit(limit) == clamp(limit, 10, 40)

\* authorLimit = clamp(Math.ceil(limit * 0.6), 8, 25)
AuthorLimit(limit) == clamp((limit * 6 + 9) \div 10, 8, 25)

ProfileKeys(top) == [i \in 1..Len(top) |-> top[i].k]

QueriesOf(subjects, authors, sl, al) ==
    [i \in 1..Len(subjects) |-> SearchUrl("subject:\"" \o subjects[i] \o "\" language:ger", sl)]
    \o [i \in 1..Len(authors) |-> SearchUrl("author:\"" \o authors[i] \o "\" language:ger", al)]
    \o [i \in 1..Len(subjects) |-> SearchUrl("subject:\"" \o subjects[i] \o "\"", sl)]
    \o [i \in 1..Len(authors) |-> SearchUrl("author:\"" \o authors[i] \o "\"", al)]

\* allQueries: subjects and authors in German first, then in any language
AllQueries(profile, limit) ==
    QueriesOf(ProfileKeys(profile.topSubjects), ProfileKeys(profile.topAuthors),
              SubjectLimit(limit), AuthorLimit(limit))

\* GET https://openlibrary.org/search.json?q={query}...: the catalog answers the
\* first query of the request with the request's documents, the others with none
CatalogSearch(query, queries, docs) ==
    Found([docs |-> IF query = queries[1] THEN docs ELSE <<>>])

(***************************************************************************)
(* openLibrarySearchCache: a Map from the url of a search to                *)
(* {expiresAt, docs}, held here as the sequence of its entries in the       *)
(* Map's iteration order, which is the order of first insertion of the      *)
(* keys: Map.set on a key that is present keeps its place.                  *)
(***************************************************************************)
SEARCH_CACHE_TTL_MS == 10 * 60 * 1000
SEARCH_CACHE_MAX_ENTRIES == 120

\* the position of key in the cache, 0 when it has none
CacheIndex(cache, key) ==
    IF \E i \in DOMAIN cache : cache[i].key = key
    THEN CHOOSE i \in DOMAIN cache : cache[i].key = key
    ELSE 0

CacheKeys(cache) == {cache[i].key : i \in DOMAIN cache}

\* openLibrarySearchCache.set(key, entry)
CachePut(cache, key, entry) ==
    IF CacheIndex(cache, key) > 0 THEN [cache EXCEPT ![CacheIndex(cache, key)] = entry]
    ELSE Append(cache, entry)

\* the cache never evicts
CacheEvictNever(cache) == cache

\* the cache evicts the entry inserted last
CacheEvictNewest(cache) ==
    IF Len(cache) >= SEARCH_CACHE_MAX_ENTRIES THEN SubSeq(cache, 1, Len(cache) - 1) ELSE cache

\* cacheSet at capacity: delete the first key of the Map (a url is never empty)
CacheEvict(cache) ==
    IF Len(cache) >= SEARCH_CACHE_MAX_ENTRIES THEN Tail(cache) ELSE cache

cacheSet(cache, key, docs, now) ==
    CachePut(CacheEvict(cache), key,
             [key |-> key, expiresAt |-> now + SEARCH_CACHE_TTL_MS, docs |-> docs])

\* an entry is served whatever its age
CacheFreshAlways(cache, key, now) == CacheIndex(cache, key) > 0

\* cached && cached.expiresAt > Date.now()
CacheFresh(cache, key, now) ==
    CacheIndex(cache, key) > 0 /\ cache[CacheIndex(cache, key)].expiresAt > now

\* the search rethrows what fetchJson threw
SearchRethrow(c, n) == Thrown(c, n)

\* the catch block of openLibrarySearch: return []
SearchCatch(c, n) == Ret(<<>>, c, n, TRUE)

\* the try block of openLibrarySearch after fetchJson returned
SearchStored(c, url, docs, n, now) ==
    Ret(docs, [c EXCEPT !.search = cacheSet(@, url, docs, now)], n, FALSE)

SearchFetched(f, c, url, now) ==
    IF f.threw THEN SearchCatch(c, f.n) ELSE SearchStored(c, url, f.json.docs, f.n, now)

openLibrarySearch(c, url, answer, net, now) ==
    IF CacheFresh(c.search, url, now)
    THEN Ret(c.search[CacheIndex(c.search, url)].docs, c, net.n, FALSE)
    ELSE SearchFetched(fetchJson(answer, net), c, url, now)

RECURSIVE SearchFanOut(_, _, _, _, _, _, _)
FanOutAfter(r, queries, i, docs, net, acc, now) ==
    IF r.threw THEN [c |-> r.c, n |-> r.n, docs |-> acc, threw |-> TRUE]
    ELSE SearchFanOut(r.c, queries, i + 1, docs, [net EXCEPT !.n = r.n], acc \o r.val, now)

\* pMapLimit(allQueries, 4, openLibrarySearch) and the concatenation of its
\* chunks: the urls are distinct, the chunks come back in query order
SearchFanOut(c, queries, i, docs, net, acc, now) ==
    IF i > Len(queries) THEN [c |-> c, n |-> net.n, docs |-> acc, threw |-> FALSE]
    ELSE FanOutAfter(openLibrarySearch(c, queries[i],
                                       CatalogSearch(queries[i], queries, docs), net, now),
                     queries, i, docs, net, acc, now)

(***************************************************************************)
(* Search calls on their own: calls start (a hit returns at once, a miss    *)
(* awaits fetchJson), the fetches settle in any order, the clock advances.  *)
(***************************************************************************)
MaxSearchCalls == 3
MaxTicks == 2

FillerUrl(i) ==
    SearchUrl("subject:\"s" \o Digit(i \div 100) \o Digit((i \div 10) % 10) \o Digit(i % 10)
              \o "\"", DefaultLimit)

\* a cache of n entries stored at time 0
FilledCache(n) ==
    [i \in 1..n |-> [key |-> FillerUrl(i), expiresAt |-> SEARCH_CACHE_TTL_MS, docs |-> <<>>]]

SearchUrls == {FillerUrl(1), FillerUrl(2), SearchUrl("author:\"Bo\"", DefaultLimit)}
SearchDocChoices == {<<DocKnoten>>, <<DocNodeB, DocArkTwo>>}
TickSteps == {1, SEARCH_CACHE_TTL_MS - 1}

SearchStep(kind, url, docs) ==
    [kind |-> kind, url |-> url, docs |-> docs, size |-> Len(caches.search)]

\* openLibrarySearch up to its return from the cache
SearchCallHit(url) ==
    /\ searches.started < MaxSearchCalls
    /\ CacheFresh(caches.search, url, searches.now)
    /\ searches' = [searches EXCEPT
                      !.started = @ + 1,
                      !.last = SearchStep("hit", url,
                                          caches.search[CacheIndex(caches.search, url)].docs)]
    /\ UNCHANGED <<pm, caches, rc, req, h, resp>>

\* openLibrarySearch up to the await of fetchJson
SearchCallMiss(url) ==
    /\ searches.started < MaxSearchCalls
    /\ ~CacheFresh(caches.search, url, searches.now)
    /\ searches' = [searches EXCEPT
                      !.started = @ + 1,
                      !.flight = @ \cup {[id |-> searches.started + 1, url |-> url]},
                      !.last = SearchStep("miss", url, <<>>)]
    /\ UNCHANGED <<pm, caches, rc, req, h, resp>>

\* fetchJson returns: cacheSet, return docs
SearchFulfil(call, docs) ==
    /\ call \in searches.flight
    /\ caches' = SearchStored(caches, call.url, docs, 0, searches.now).c
    /\ searches' = [searches EXCEPT !.flight = @ \ {call},
                                    !.last = SearchStep("stored", call.url, docs)]
    /\ UNCHANGED <<pm, rc, req, h, resp>>

\* fetchJson throws: return []
SearchReject(call) ==
    /\ call \in searches.flight
    /\ caches' = SearchCatch(caches, 0).c
    /\ searches' = [searches EXCEPT !.flight = @ \ {call},
                                    !.last = SearchStep("failed", call.url, <<>>)]
    /\ UNCHANGED <<pm, rc, req, h, resp>>

\* time passes
Tick(d) ==
    /\ searches.ticks < MaxTicks
    /\ searches' = [searches EXCEPT !.now = @ + d, !.ticks = @ + 1,
                                    !.last = SearchStep("tick", <<>>, <<>>)]
    /\ UNCHANGED <<pm, caches, rc, req, h, resp>>

SearchCacheInit ==
    /\ pm = PmIdle
    /\ caches \in {[EmptyCaches EXCEPT !.search = cache] :
                     cache \in {<<>>, FilledCache(SEARCH_CACHE_MAX_ENTRIES - 1),
                                FilledCache(SEARCH_CACHE_MAX_ENTRIES)}}
    /\ rc = NoCall
    /\ req = Null
    /\ h = Null
    /\ resp = Null
    /\ searches = ScIdle

SearchCacheNext ==
    \/ \E url \in SearchUrls : SearchCallHit(url)
    \/ \E url \in SearchUrls : SearchCallMiss(url)
    \/ \E call \in searches.flight, docs \in SearchDocChoices : SearchFulfil(call, docs)
    \/ \E call \in searches.flight : SearchReject(call)
    \/ \E d \in TickSteps : Tick(d)

SpecSearchCache == SearchCacheInit /\ [][SearchCacheNext]_vars

\* C12: the search cache never holds more than SEARCH_CACHE_MAX_ENTRIES entries,
\* and a result stored while the cache is at capacity evicts exactly one entry,
\* the key inserted earliest (the first of the Map)
C12_CacheBoundedOldestEvicted ==
    /\ Len(caches.search) <= SEARCH_CACHE_MAX_ENTRIES
    /\ [][/\ Len(caches'.search) <= SEARCH_CACHE_MAX_ENTRIES
          /\ (searches'.last.kind = "stored" /\ Len(caches.search) = SEARCH_CACHE_MAX_ENTRIES)
             => /\ CacheKeys(caches'.search)
                     = (CacheKeys(caches.search) \ {caches.search[1].key})
                       \cup {searches'.last.url}
                /\ \A i \in 2..Len(caches.search) :
                       caches.search[i].key # searches'.last.url
                       => caches.search[i] \in Range(caches'.search)]_vars

\* a result was stored while the cache was full
C12_Witness ==
    /\ searches.last.kind = "stored"
    /\ searches.last.size = SEARCH_CACHE_MAX_ENTRIES
    /\ Len(caches.search) = SEARCH_CACHE_MAX_ENTRIES

\* the entries of url in the cache
EntriesOf(cache, url) == {cache[i] : i \in {j \in DOMAIN cache : cache[j].key = url}}

\* C13: a search call returns the stored documents without a network call
\* exactly when an entry of its url exists that is younger than the TTL; else it
\* fetches, and a successful fetch leaves one entry of the url, with the fetched
\* documents and an expiry of a full TTL from now
C13_CacheHitWithinTtl ==
    [][/\ searches'.last.kind = "hit"
          => /\ \E e \in EntriesOf(caches.search, searches'.last.url) :
                    /\ searches.now - (e.expiresAt - SEARCH_CACHE_TTL_MS) < SEARCH_CACHE_TTL_MS
                    /\ searches'.last.docs = e.docs
             /\ searches'.flight = searches.flight
             /\ caches' = caches
       /\ searches'.last.kind = "miss"
          => /\ \A e \in EntriesOf(caches.search, searches'.last.url) :
                    searches.now - (e.expiresAt - SEARCH_CACHE_TTL_MS) >= SEARCH_CACHE_TTL_MS
             /\ \E call \in searches'.flight \ searches.flight : call.url = searches'.last.url
       /\ searches'.last.kind = "stored"
          => EntriesOf(caches'.search, searches'.last.url)
               = {[key |-> searches'.last.url,
                   expiresAt |-> searches.now + SEARCH_CACHE_TTL_MS,
                   docs |-> searches'.last.docs]}]_vars

\* an expired entry was replaced by a fetch, and a later call was served from it
C13_Witness ==
    /\ searches.last.kind = "hit"
    /\ searches.now >= SEARCH_CACHE_TTL_MS
    /\ searches.last.url = FillerUrl(1)
    /\ searches.last.docs # <<>>

RECURSIVE ScoreDocs(_, _, _)
\* the loop that scores the documents into scoredGerman and scoredOther
ScoreDocs(docs, i, acc) ==
    IF i > Len(docs) THEN acc
    ELSE LET doc == docs[i]
             isbn == bestIsbnFromDoc(doc)
             title == trim(doc.title)
             wk == workKeyFromDoc(doc)
             item == [workKey |-> wk,
                      rec |-> [recId |-> "seed:" \o isbn, workKey |-> wk, isbn |-> isbn,
                               title |-> title, authors |-> authorsFromDoc(doc),
                               score |-> doc.score + (IF doc.german THEN GERMAN_SCORE_BONUS ELSE 0),
                               reasons |-> doc.reasons]]
         IN  IF isbn = Null \/ title = "" \/ doc.score <= 0 THEN ScoreDocs(docs, i + 1, acc)
             ELSE IF doc.german
             THEN ScoreDocs(docs, i + 1, [acc EXCEPT !.german = Append(@, item)])
             ELSE ScoreDocs(docs, i + 1, [acc EXCEPT !.other = Append(@, item)])

RECURSIVE InsertByScore(_, _)
InsertByScore(sorted, x) ==
    IF Len(sorted) = 0 THEN <<x>>
    ELSE IF sorted[1].rec.score >= x.rec.score
    THEN <<sorted[1]>> \o InsertByScore(Tail(sorted), x)
    ELSE <<x>> \o sorted

RECURSIVE SortByScoreDesc(_)
\* sort((a, b) => b.rec.score - a.rec.score): stable
SortByScoreDesc(items) ==
    IF Len(items) = 0 THEN <<>>
    ELSE InsertByScore(SortByScoreDesc(SubSeq(items, 1, Len(items) - 1)), items[Len(items)])

Scored(docs, limit) ==
    LET groups == ScoreDocs(docs, 1, [german |-> <<>>, other |-> <<>>])
        scoredGerman == SortByScoreDesc(groups.german)
        scoredOther == SortByScoreDesc(groups.other)
    IN  IF Len(scoredGerman) >= limit THEN scoredGerman ELSE scoredGerman \o scoredOther

(***************************************************************************)
(* One pass of the candidate loop                                          *)
(***************************************************************************)
LoopInit ==
    [out |-> <<>>, seenIsbn |-> {}, seenWorkOrIsbn |-> {}, seenCanonical |-> {},
     seenTitlesByPrimaryAuthor |-> EmptyMap, perAuthorCount |-> EmptyMap,
     candidateWorkByTitleCache |-> EmptyMap]

fallbackCanonicalKey(r) ==
    LET authorKey == primaryAuthorKey(r.authors)
        tKey == titleTokenKey(r.title)
        aLast == authorLastName(pickPrimaryAuthor(r.authors))
    IN  IF tKey # "" THEN "na:" \o authorKey \o "|" \o tKey
        ELSE "na:" \o norm(r.title) \o "|" \o norm(aLast)

\* needsOwnedCanonicalCheck || !resolvedWorkKey
CanonicalResolutionWanted(authorOwned, resolvedWorkKey) ==
    authorOwned \/ resolvedWorkKey = Null

DislikeHit(preferenceKeys, signals) == preferenceKeys \cap signals.dislikedKeys # {}

LikeHit(preferenceKeys, signals) == preferenceKeys \cap signals.likedKeys # {}

OwnedIsbnHit(isbn, ownedIsbn) == isbn \in ownedIsbn

\* some title of the list is a near-duplicate of title; only asked for a
\* non-empty author key
NearDuplicateAmong(authorKey, title, titlesByAuthor) ==
    /\ authorKey # ""
    /\ \E i \in 1..Len(MapGetOr(titlesByAuthor, authorKey, <<>>)) :
           isTitleNearDuplicateSameAuthor(title, titlesByAuthor[authorKey][i])

AuthorCappedLate(authorKey, perAuthorCount) ==
    authorKey # "" /\ MapGetOr(perAuthorCount, authorKey, 0) > MAX_RECS_PER_PRIMARY_AUTHOR

AuthorCapped(authorKey, perAuthorCount) ==
    authorKey # "" /\ MapGetOr(perAuthorCount, authorKey, 0) >= MAX_RECS_PER_PRIMARY_AUTHOR

PreferenceLabel == "Deine Praeferenz"

\* what one pass leaves: the verdict on the candidate and the sets of the loop
AcceptedRec(r, resolvedWorkKey, resolvedCanonicalKey) ==
    [r EXCEPT !.workKey = resolvedWorkKey,
              !.recId = IF resolvedCanonicalKey # Null THEN resolvedCanonicalKey
                        ELSE IF resolvedWorkKey # Null THEN "wk:" \o resolvedWorkKey
                        ELSE "isbn:" \o r.isbn]

Accept(l, r, authorKey, accepted) ==
    [l EXCEPT
       !.perAuthorCount =
           IF authorKey # "" THEN MapSet(@, authorKey, MapGetOr(@, authorKey, 0) + 1) ELSE @,
       !.seenTitlesByPrimaryAuthor =
           IF authorKey # ""
           THEN MapSet(@, authorKey, Append(MapGetOr(@, authorKey, <<>>), r.title))
           ELSE @,
       !.seenIsbn = @ \cup {r.isbn},
       !.out = Append(@, accepted)]

\* the sets as the pass leaves them: seenWorkOrIsbn and seenCanonical are added
\* to before the later filters drop the candidate
LoopAfter(verdict, l, r, authorKey, workOrIsbnKey, ck, accepted) ==
    IF verdict = "accepted"
    THEN Accept([l EXCEPT !.seenWorkOrIsbn = @ \cup {workOrIsbnKey},
                          !.seenCanonical = @ \cup {ck}],
                r, authorKey, accepted)
    ELSE IF verdict = "authorLimit"
    THEN [l EXCEPT !.seenWorkOrIsbn = @ \cup {workOrIsbnKey}, !.seenCanonical = @ \cup {ck}]
    ELSE IF verdict \in {"seenTitle", "seenCanonical"}
    THEN [l EXCEPT !.seenWorkOrIsbn = @ \cup {workOrIsbnKey}]
    ELSE l

\* an owned work filter that lets every candidate pass
OwnedWorkHitNever(resolvedWorkKey, ownedWork) == FALSE

\* resolvedWorkKey && ownedWork.has(resolvedWorkKey)
OwnedWorkHit(resolvedWorkKey, ownedWork) ==
    resolvedWorkKey # Null /\ resolvedWorkKey \in ownedWork

\* the filters of the loop, in the order of the code
Verdict(threw, l, r, authorKey, tKey, resolvedWorkKey, resolvedCanonicalKey, preferenceKeys, workOrIsbnKey, ck, owned, ownedCanonicalResolved, signals) ==
    IF threw THEN "threw"
    ELSE IF resolvedCanonicalKey # Null /\ resolvedCanonicalKey \in ownedCanonicalResolved
    THEN "ownedCanonicalResolved"
    ELSE IF DislikeHit(preferenceKeys, signals) THEN "dislike"
    ELSE IF OwnedIsbnHit(r.isbn, owned.ownedIsbn) THEN "ownedIsbn"
    ELSE IF r.isbn \in l.seenIsbn THEN "seenIsbn"
    ELSE IF tKey # "" /\ (authorKey \o "|" \o tKey) \in owned.ownedCanonical
    THEN "ownedCanonical"
    ELSE IF NearDuplicateAmong(authorKey, r.title, owned.ownedTitlesByPrimaryAuthor)
    THEN "ownedTitle"
    ELSE IF OwnedWorkHit(resolvedWorkKey, owned.ownedWork) THEN "ownedWork"
    ELSE IF workOrIsbnKey \in l.seenWorkOrIsbn THEN "seenWorkOrIsbn"
    ELSE IF NearDuplicateAmong(authorKey, r.title, l.seenTitlesByPrimaryAuthor)
    THEN "seenTitle"
    ELSE IF ck \in l.seenCanonical THEN "seenCanonical"
    ELSE IF AuthorCapped(authorKey, l.perAuthorCount) THEN "authorLimit"
    ELSE "accepted"

CandidateResult(verdict, s3, l, r, authorKey, resolvedWorkKey, preferenceKeys, workOrIsbnKey, ck) ==
    [verdict |-> verdict, c |-> s3.c, n |-> s3.n, preferenceKeys |-> preferenceKeys,
     l |-> LoopAfter(verdict, l, r, authorKey, workOrIsbnKey, ck,
                     AcceptedRec(r, resolvedWorkKey, s3.val))]

\* a like overlay that raises the score and leaves the reasons alone
BoostedQuietly(r, preferenceKeys, signals) ==
    IF LikeHit(preferenceKeys, signals)
    THEN [r EXCEPT !.score = @ + PREFERENCE_LIKE_BOOST]
    ELSE r

\* the like boost on the record
Boosted(r, preferenceKeys, signals) ==
    IF LikeHit(preferenceKeys, signals)
    THEN [r EXCEPT !.score = @ + PREFERENCE_LIKE_BOOST,
                   !.reasons = slice(<<PreferenceLabel>> \o @, ReasonsMax)]
    ELSE r

CandidateFiltered(threw, s3, l, r, authorKey, tKey, resolvedWorkKey, preferenceKeys, workOrIsbnKey, ck, owned, ownedCanonicalResolved, signals) ==
    CandidateResult(
        Verdict(threw, l, r, authorKey, tKey, resolvedWorkKey, s3.val, preferenceKeys,
                workOrIsbnKey, ck, owned, ownedCanonicalResolved, signals),
        s3, l, Boosted(r, preferenceKeys, signals), authorKey, resolvedWorkKey,
        preferenceKeys, workOrIsbnKey, ck)

\* the pass after canonical resolution s3: preference keys and dedup keys
CandidateResolved(threw, s3, l, r, authorKey, tKey, resolvedWorkKey, owned, ownedCanonicalResolved, signals) ==
    CandidateFiltered(
        threw \/ s3.threw, s3, l, r, authorKey, tKey, resolvedWorkKey,
        buildPreferenceKeys(s3.val, resolvedWorkKey, authorKey, tKey, r.isbn),
        IF resolvedWorkKey # Null THEN "wk:" \o resolvedWorkKey ELSE "isbn:" \o r.isbn,
        IF s3.val # Null THEN s3.val
        ELSE IF resolvedWorkKey # Null THEN "wk:" \o resolvedWorkKey
        ELSE fallbackCanonicalKey(r),
        owned, ownedCanonicalResolved, signals)

\* the pass after the work key is settled: the canonical key is resolved for
\* an owned author or a missing work key only
CandidateWithWorkKey(threw, sc, sn, resolvedWorkKey, authorOwned, l, r, authorKey, tKey, owned, ownedCanonicalResolved, signals, net) ==
    CandidateResolved(
        threw,
        IF CanonicalResolutionWanted(authorOwned, resolvedWorkKey) /\ ~threw
        THEN resolveCanonicalKey(sc, resolvedWorkKey, r.title, r.authors,
                                 [net EXCEPT !.n = sn])
        ELSE Ret(Null, sc, sn, FALSE),
        l, r, authorKey, tKey, resolvedWorkKey, owned, ownedCanonicalResolved, signals)

\* the pass after the isbn verification s2 of the work key s1
CandidateVerified(s1, s2, authorOwned, l, r, authorKey, tKey, owned, ownedCanonicalResolved, signals, net) ==
    CandidateWithWorkKey(
        s1.threw \/ s2.threw, s2.c, s2.n,
        IF s2.val # Null THEN s2.val ELSE s1.val,
        authorOwned, l, r, authorKey, tKey, owned, ownedCanonicalResolved, signals, net)

\* the pass after the work key s1 of the document or of its title: for an
\* author of the library the work key of the isbn is preferred
CandidateLookedUp(s1, authorOwned, l, r, authorKey, tKey, owned, ownedCanonicalResolved, signals, net) ==
    CandidateVerified(
        s1,
        IF authorOwned /\ ~s1.threw
        THEN openLibraryIsbnToWorkKey(s1.c, r.isbn, [net EXCEPT !.n = s1.n])
        ELSE Ret(Null, s1.c, s1.n, FALSE),
        authorOwned, l, r, authorKey, tKey, owned, ownedCanonicalResolved, signals, net)

\* candidateWorkByTitleCache after the lookup s1 under cacheKey
ByTitleCacheAfter(l, wk, cacheKey, s1) ==
    IF wk = Null /\ ~MapHas(l.candidateWorkByTitleCache, cacheKey) /\ ~s1.threw
    THEN [l EXCEPT !.candidateWorkByTitleCache = MapSet(@, cacheKey, s1.val)]
    ELSE l

CandidateKeyed(s1, cacheKey, c, l, r, authorKey, tKey, owned, ownedCanonicalResolved, signals, net) ==
    CandidateLookedUp(
        s1, authorKey # "" /\ authorKey \in owned.ownedAuthorKeys,
        ByTitleCacheAfter(l, r.workKey, cacheKey, s1),
        r, authorKey, tKey, owned, ownedCanonicalResolved, signals, net)

\* the start of the pass: the work key of the document, else of the title
\* cache of the request, else of a title and author search
CandidateStart(cacheKey, c, l, r, authorKey, tKey, owned, ownedCanonicalResolved, signals, net) ==
    CandidateKeyed(
        IF r.workKey # Null THEN Ret(r.workKey, c, net.n, FALSE)
        ELSE IF MapHas(l.candidateWorkByTitleCache, cacheKey)
        THEN Ret(l.candidateWorkByTitleCache[cacheKey], c, net.n, FALSE)
        ELSE openLibraryWorkKeyByTitleAuthor(c, r.title, r.authors, net),
        cacheKey, c, l, r, authorKey, tKey, owned, ownedCanonicalResolved, signals, net)

CandidateOf(c, l, r, authorKey, tKey, owned, ownedCanonicalResolved, signals, net) ==
    CandidateStart(authorKey \o "|" \o (IF tKey # "" THEN tKey ELSE norm(r.title)),
                   c, l, r, authorKey, tKey, owned, ownedCanonicalResolved, signals, net)

Candidate(c, l, item, owned, ownedCanonicalResolved, signals, net) ==
    CandidateOf(c, l, [item.rec EXCEPT !.recId = "", !.workKey = item.workKey],
                primaryAuthorKey(item.rec.authors), titleTokenKey(item.rec.title),
                owned, ownedCanonicalResolved, signals, net)

(***************************************************************************)
(* scoreCandidate, and the like boost on what it returns                   *)
(***************************************************************************)
STORY_WEIGHT == 60
TOPIC_WEIGHT == 28
AUTHOR_WEIGHT == 12
SubjectsFromDocMax == 12
TopicNormMax == 3

\* Array.isArray(doc.f) ? doc.f : []
FieldList(doc, f) == IF f \in DOMAIN doc THEN doc[f] ELSE <<>>

subjectsFromDoc(doc) == slice(FieldList(doc, "subject"), SubjectsFromDocMax)

NormSet(seq) == {norm(seq[i]) : i \in DOMAIN seq}

\* the top subjects of the profile that are subjects of the document
SubjHits(topSubjects, docSubjects) ==
    SelectSeq(topSubjects, LAMBDA s : norm(s.k) \in NormSet(docSubjects))

RECURSIVE TopicRaw(_)
\* topicRaw += isGenericSubject(s) ? 0.25 : 1, held times 4
TopicRaw(subjHits) ==
    IF Len(subjHits) = 0 THEN 0
    ELSE (IF isGenericSubject(subjHits[1].k) THEN 1 ELSE 4) + TopicRaw(Tail(subjHits))

\* topAuth.find((a) => docAuthNorm.has(norm(a))) found an author
AuthHit(topAuthors, docAuthors) ==
    \E i \in DOMAIN topAuthors : norm(topAuthors[i].k) \in NormSet(docAuthors)

\* [doc.title, docSubjects.join(" ")].join(" ")
StoryInput(doc) == join(<<doc.title, join(subjectsFromDoc(doc), " ")>>, " ")

\* the keys of the candidate with a weight in the story profile, with the weight
WeightHits(keys, weights) ==
    [i \in DOMAIN SelectSeq(keys, LAMBDA k : AccWeight(weights, k) # 0) |->
        [k |-> SelectSeq(keys, LAMBDA k : AccWeight(weights, k) # 0)[i],
         w |-> AccWeight(weights, SelectSeq(keys, LAMBDA k : AccWeight(weights, k) # 0)[i])]]

\* the reasons of the components that hit, in the order story, topic, author
ScoreReasons(storyHit, topicHit, authHit) ==
    (IF storyHit THEN <<"Story">> ELSE <<>>)
    \o (IF topicHit THEN <<"Themen">> ELSE <<>>)
    \o (IF authHit THEN <<"Autor">> ELSE <<>>)

\* storyNorm = min(1, storyRaw / normDenominator) and topicNorm = min(1, topicRaw /
\* min(3, topSubj.length)) or 0, each as numerator and denominator; the score
\* 60 storyNorm + 28 topicNorm + 12 authorNorm over the product of the denominators
ScoreOf(storyHits, motifHits, subjHits, authHit, normDenominator, topCount) ==
    LET sDen == 2 * normDenominator
        sNum == Min(2 * SumWeights(storyHits) + 3 * SumWeights(motifHits), sDen)
        tDen == 4 * Max(1, Min(TopicNormMax, topCount))
        tNum == IF topCount = 0 THEN 0 ELSE Min(TopicRaw(subjHits), tDen)
        aNum == IF authHit THEN 1 ELSE 0
    IN  [story |-> sNum, topic |-> tNum, author |-> aNum,
         score |-> STORY_WEIGHT * sNum * tDen + TOPIC_WEIGHT * tNum * sDen
                   + AUTHOR_WEIGHT * aNum * sDen * tDen,
         scale |-> sDen * tDen,
         reasons |-> slice(ScoreReasons(Len(motifHits) > 0 \/ Len(storyHits) > 0,
                                        Len(subjHits) > 0, authHit), ReasonsMax)]

scoreCandidate(doc, profile, storyProfile) ==
    ScoreOf(WeightHits(uniq(extractStoryTerms(StoryInput(doc))), storyProfile.weights),
            WeightHits(extractMotifsFromText(StoryInput(doc)), storyProfile.motifWeights),
            SubjHits(profile.topSubjects, subjectsFromDoc(doc)),
            AuthHit(profile.topAuthors, FieldList(doc, "author_name")),
            storyProfile.normDenominator, Len(profile.topSubjects))

\* documents that hit all the components of the profiles, some and none
ScoreDocChoices ==
    { [title |-> "A Widow's Journey", subject |-> <<"Grief", "boats">>, author_name |-> <<"Al X">>],
      [title |-> "Maps", subject |-> <<"maps", "fiction">>, author_name |-> <<"Cy">>],
      [title |-> "Tale of a Friendship", author_name |-> <<"Nobody">>],
      [title |-> "Healing", subject |-> <<"Fiction">>],
      [title |-> "Zzz", subject |-> <<"zebras">>, author_name |-> <<"Nobody">>] }

NoScore == [story |-> 0, topic |-> 0, author |-> 0, score |-> 0, scale |-> 1, reasons |-> <<>>]

\* a key that the signals of the user like
LikedKey == "isbn:liked"
LikedSignals == [likedKeys |-> {LikedKey}, dislikedKeys |-> {}]

\* scoreCandidate on the document against the profiles of the library
ScoreDocument ==
    /\ h.pc = "start"
    /\ h' = [h EXCEPT !.pc = "scored",
                      !.result = scoreCandidate(req.doc,
                                                computeProfile(req.entries, req.minRating),
                                                buildStoryProfile(req.entries, req.minRating))]
    /\ UNCHANGED <<pm, caches, rc, req, resp, searches>>

\* if (score <= 0) continue
DiscardUnscored ==
    /\ h.pc = "scored"
    /\ h.result.score <= 0
    /\ h' = [h EXCEPT !.pc = "discarded"]
    /\ UNCHANGED <<pm, caches, rc, req, resp, searches>>

\* the preference overlay of the loop on the record of the scored document;
\* rec.score holds what the overlay adds to the score of the document
OverlayPreference ==
    /\ h.pc = "scored"
    /\ h.result.score > 0
    /\ h' = [h EXCEPT !.pc = "returned",
                      !.rec = Boosted([score |-> 0, reasons |-> h.result.reasons],
                                      IF req.liked THEN {LikedKey} ELSE {}, LikedSignals)]
    /\ UNCHANGED <<pm, caches, rc, req, resp, searches>>

ScoreInit ==
    /\ req \in { [entries |-> lib, minRating |-> DefaultMinRating, doc |-> d, liked |-> l] :
                    lib \in ProfileLibraries, d \in ScoreDocChoices, l \in BOOLEAN }
    /\ h = [pc |-> "start", result |-> NoScore, rec |-> [score |-> 0, reasons |-> <<>>]]
    /\ pm = PmIdle
    /\ caches = EmptyCaches
    /\ rc = NoCall
    /\ resp = Null
    /\ searches = ScIdle

ScoreNext == ScoreDocument \/ DiscardUnscored \/ OverlayPreference

SpecScore == ScoreInit /\ [][ScoreNext]_vars

\* the reasons of the components that contributed to the score
ComponentReasons ==
    ScoreReasons(h.result.story > 0, h.result.topic > 0, h.result.author > 0)

\* C23: a returned recommendation has one to three reasons, and each of the
\* components story, topic and author that contributed to its score has its
\* reason among them, whether or not the preference reason was prepended
C23_ReasonsCoverComponents ==
    h.pc = "returned"
    => /\ Len(h.rec.reasons) \in 1..ReasonsMax
       /\ Range(ComponentReasons) \subseteq Range(h.rec.reasons)

(***************************************************************************)
(* The handler, from one await to the next                                 *)
(***************************************************************************)
NoProfile == [likedCount |-> 0, topSubjects |-> <<>>, topAuthors |-> <<>>]

NoResponse ==
    [status |-> 0, ok |-> FALSE, recommendations |-> <<>>, profile |-> NoProfile,
     error |-> Null]

\* n counts the network calls of the request, log the candidates the loop has
\* passed with what became of them
HandlerIdle ==
    [pc |-> "start", limit |-> DefaultLimit, entries |-> <<>>, profile |-> NoProfile,
     owned |-> NoOwned, ownedCanonicalResolved |-> {}, signals |-> NoPrefs,
     scored |-> <<>>, idx |-> 1, loop |-> LoopInit, log |-> <<>>, n |-> 0,
     run |-> 1, first |-> NoResponse]

jsonOk(profile, recommendations) ==
    [status |-> 200, ok |-> TRUE, recommendations |-> recommendations,
     profile |-> profile, error |-> Null]

jsonErr(status, error) ==
    [status |-> status, ok |-> FALSE, recommendations |-> <<>>, profile |-> NoProfile,
     error |-> error]

NetOf(r, n) == [fails |-> r.netFails, kind |-> "transport", n |-> n]

\* getSessionUser
Authenticate ==
    /\ h.pc = "start"
    /\ IF req.user
       THEN /\ h' = [h EXCEPT !.pc = "library", !.limit = EffectiveLimit(req.limitParam)]
            /\ UNCHANGED resp
       ELSE /\ h' = [h EXCEPT !.pc = "done"]
            /\ resp' = jsonErr(401, "Not authenticated")
    /\ UNCHANGED <<pm, caches, rc, req, searches>>

\* libraryEntry.findMany rejects: the catch block answers
LoadLibraryFails ==
    /\ h.pc = "library"
    /\ req.db # "ok"
    /\ h' = [h EXCEPT !.pc = "done"]
    /\ resp' = jsonErr(500, "database")
    /\ UNCHANGED <<pm, caches, rc, req, searches>>

\* the handler with the library loaded and the profile computed
Profiled(entries, profile) ==
    IF EmptyProfile(profile)
    THEN /\ h' = [h EXCEPT !.pc = "done", !.entries = entries, !.profile = profile]
         /\ resp' = jsonOk(profile, <<>>)
    ELSE /\ h' = [h EXCEPT !.pc = "owned", !.entries = entries, !.profile = profile]
         /\ UNCHANGED resp

\* libraryEntry.findMany resolves; the profile is computed and an empty one
\* answers the request
LoadLibrary ==
    /\ h.pc = "library"
    /\ req.db = "ok"
    /\ Profiled(slice(req.entries, LIBRARY_TAKE),
                computeProfile(SeedEntries(slice(req.entries, LIBRARY_TAKE),
                                           req.selectedSeedIds),
                               req.minRating))
    /\ UNCHANGED <<pm, caches, rc, req, searches>>

\* a resolver threw: the catch block of the handler answers
Crash(n) ==
    /\ h' = [h EXCEPT !.pc = "done", !.n = n]
    /\ resp' = jsonErr(500, "resolver")

OwnedBuilt(o) ==
    /\ caches' = o.c
    /\ IF o.threw THEN Crash(o.n)
       ELSE /\ h' = [h EXCEPT !.pc = "canonical", !.n = o.n,
                              !.owned = [k \in DOMAIN NoOwned |-> o[k]]]
            /\ UNCHANGED resp

BuildOwnedKeys ==
    /\ h.pc = "owned"
    /\ OwnedBuilt(buildOwnedKeys(caches, h.entries, NetOf(req, h.n)))
    /\ UNCHANGED <<pm, rc, req, searches>>

OwnedCanonicalResolved(o) ==
    /\ caches' = o.c
    /\ IF o.threw THEN Crash(o.n)
       ELSE /\ h' = [h EXCEPT !.pc = "signals", !.n = o.n, !.ownedCanonicalResolved = o.keys]
            /\ UNCHANGED resp

ResolveOwnedCanonical ==
    /\ h.pc = "canonical"
    /\ OwnedCanonicalResolved(ownedCanonicalResolvedOf(caches, h.entries, NetOf(req, h.n)))
    /\ UNCHANGED <<pm, rc, req, searches>>

SignalsLoaded(s) ==
    IF s.threw
    THEN /\ h' = [h EXCEPT !.pc = "done"]
         /\ resp' = jsonErr(500, "database")
    ELSE /\ h' = [h EXCEPT !.pc = "search", !.signals = s.signals]
         /\ UNCHANGED resp

LoadSignals ==
    /\ h.pc = "signals"
    /\ SignalsLoaded(loadPreferenceSignals(req.events, req.prefStore))
    /\ UNCHANGED <<pm, caches, rc, req, searches>>

Searched(f) ==
    /\ caches' = f.c
    /\ IF f.threw THEN Crash(f.n)
       ELSE /\ h' = [h EXCEPT !.pc = "loop", !.n = f.n, !.scored = Scored(f.docs, h.limit)]
            /\ UNCHANGED resp

\* the search fan-out, then scoring and ordering
Search ==
    /\ h.pc = "search"
    /\ Searched(SearchFanOut(caches, AllQueries(h.profile, h.limit), 1, req.docs,
                              NetOf(req, h.n), <<>>, searches.now))
    /\ UNCHANGED <<pm, rc, req, searches>>

\* a loop that takes one candidate more when out has reached the limit
LoopGoesOnLate == h.idx <= Len(h.scored) /\ Len(h.loop.out) <= h.limit

\* for (const item of scored) { if (out.length >= limit) break; ... }
LoopGoesOn == h.idx <= Len(h.scored) /\ Len(h.loop.out) < h.limit

CandidatePassed(s, item) ==
    /\ caches' = s.c
    /\ IF s.verdict = "threw" THEN Crash(s.n)
       ELSE /\ h' = [h EXCEPT !.idx = @ + 1, !.n = s.n, !.loop = s.l,
                              !.log = Append(@, [item |-> item, verdict |-> s.verdict,
                                                 preferenceKeys |-> s.preferenceKeys])]
            /\ UNCHANGED resp

\* one candidate of the loop
NextCandidate ==
    /\ h.pc = "loop"
    /\ LoopGoesOn
    /\ CandidatePassed(Candidate(caches, h.loop, h.scored[h.idx], h.owned,
                                 h.ownedCanonicalResolved, h.signals, NetOf(req, h.n)),
                       h.scored[h.idx])
    /\ UNCHANGED <<pm, rc, req, searches>>

\* the loop is over: jsonOk with out.  The description lookups between the loop
\* and the answer change rec.description only, a field the records here do not
\* carry.
Respond ==
    /\ h.pc = "loop"
    /\ ~LoopGoesOn
    /\ h' = [h EXCEPT !.pc = "done"]
    /\ resp' = jsonOk(h.profile, h.loop.out)
    /\ UNCHANGED <<pm, caches, rc, req, searches>>

\* the caches of a process in which a lookup of IsbnKnot failed earlier
FailedCaches ==
    openLibraryIsbnToWorkKey(EmptyCaches, IsbnKnot,
                             [fails |-> {1}, kind |-> "timeout", n |-> 0]).c

\* the caches of a process in which the title Knot by Al X was resolved earlier
OtherCaches ==
    wikidataWorkQidByTitleAuthor(EmptyCaches, "Knot", "Al X",
                                 [fails |-> {}, kind |-> "transport", n |-> 0]).c

\* the caches of a process that made SEARCH_CACHE_MAX_ENTRIES other searches
FullCaches == [EmptyCaches EXCEPT !.search = FilledCache(SEARCH_CACHE_MAX_ENTRIES)]

CachesAgain(again) ==
    CASE again \in {"same", "late"} -> caches
      [] again = "failed" -> FailedCaches
      [] again = "other" -> OtherCaches
      [] again = "full" -> FullCaches

\* Date.now() at the second run
NowAgain(again) ==
    IF again = "late" THEN searches.now + SEARCH_CACHE_TTL_MS ELSE searches.now

\* the same request is made again: a second run of the handler
RunAgain ==
    /\ h.pc = "done"
    /\ h.run = 1
    /\ req.again \in AgainChoices
    /\ h' = [HandlerIdle EXCEPT !.run = 2, !.first = resp]
    /\ resp' = NoResponse
    /\ caches' = CachesAgain(req.again)
    /\ searches' = [searches EXCEPT !.now = NowAgain(req.again)]
    /\ UNCHANGED <<pm, rc, req>>

Init ==
    /\ pm = PmIdle
    /\ caches = EmptyCaches
    /\ rc = NoCall
    /\ req \in Requests
    /\ h = HandlerIdle
    /\ resp = NoResponse
    /\ searches = ScIdle

Next ==
    \/ Authenticate
    \/ LoadLibraryFails
    \/ LoadLibrary
    \/ BuildOwnedKeys
    \/ ResolveOwnedCanonical
    \/ LoadSignals
    \/ Search
    \/ NextCandidate
    \/ Respond
    \/ RunAgain

Spec == Init /\ [][Next]_vars

(***************************************************************************)
(* Properties of the handler                                               *)
(***************************************************************************)
Answered == h.pc = "done" /\ resp.ok

Recommendations == resp.recommendations

\* the key resolveCanonicalKey yields for a work key, title and authors when
\* the catalog and the identity source answer
CanonicalKeyOf(workKey, title, authors) ==
    resolveCanonicalKey(EmptyCaches, workKey, title, authors,
                        [fails |-> {}, kind |-> "transport", n |-> 0]).val

RecCanonicalKey(r) == CanonicalKeyOf(r.workKey, r.title, r.authors)

Verdicts(v) == {i \in 1..Len(h.log) : h.log[i].verdict = v}

\* C1: no two recommendations of one response have the same CanonicalKey
C1_NoSharedCanonicalKey ==
    Answered =>
        \A i, j \in 1..Len(Recommendations) :
            (i < j /\ RecCanonicalKey(Recommendations[i]) # Null)
                => RecCanonicalKey(Recommendations[i]) # RecCanonicalKey(Recommendations[j])

\* C2: no recommendation has the CanonicalKey resolved for an owned library
\* entry, whatever its author and whether or not it had a work key
C2_NoOwnedCanonicalKey ==
    Answered =>
        \A i \in 1..Len(Recommendations) :
            RecCanonicalKey(Recommendations[i]) \notin h.ownedCanonicalResolved

\* C3: no recommendation has the identifier of an entry of the caller's library
C3_NoOwnedIdentifier ==
    Answered =>
        \A i \in 1..Len(Recommendations), j \in 1..Len(req.entries) :
            Recommendations[i].isbn # req.entries[j].isbn

\* C4: no recommendation has the normalized primary author of a library entry
\* and a title that is a near-duplicate of that entry's title, also when both
\* primary authors are empty
C4_NoOwnedNearDuplicate ==
    Answered =>
        \A i \in 1..Len(Recommendations), j \in 1..Len(req.entries) :
            ~ /\ primaryAuthorKey(Recommendations[i].authors)
                    = primaryAuthorKey(req.entries[j].authors)
              /\ isTitleNearDuplicateSameAuthor(Recommendations[i].title,
                                                req.entries[j].title)

AuthorKeyCount(a) ==
    Cardinality({i \in 1..Len(Recommendations) :
                    primaryAuthorKey(Recommendations[i].authors) = a})

RecommendedAuthorKeys ==
    {primaryAuthorKey(Recommendations[i].authors) : i \in 1..Len(Recommendations)}

\* C5 as stated: every primary-author key, the empty key of authorless
\* candidates included, has at most the cap of 3 recommendations in a response
C5_CapForEveryKey ==
    Answered => \A a \in RecommendedAuthorKeys : AuthorKeyCount(a) <= MAX_RECS_PER_PRIMARY_AUTHOR

\* C5: every non-empty primary-author key has at most the cap of 3
\* recommendations in a response; the empty key of authorless candidates is
\* not counted
C5_CapForAuthors ==
    Answered =>
        \A a \in RecommendedAuthorKeys \ {""} : AuthorKeyCount(a) <= MAX_RECS_PER_PRIMARY_AUTHOR

C5_Witness ==
    /\ Answered
    /\ \E i \in Verdicts("authorLimit") :
           AuthorKeyCount(primaryAuthorKey(h.log[i].item.rec.authors))
               = MAX_RECS_PER_PRIMARY_AUTHOR

\* the keys whose newest stored event is a dislike
StoredDislikes ==
    {trim(req.events[i].workKey) : i \in
        {k \in 1..Len(req.events) :
            /\ req.events[k].event = "pref_dislike"
            /\ \A m \in (k + 1)..Len(req.events) :
                   trim(req.events[m].workKey) # trim(req.events[k].workKey)}}

StartsWith(s, prefix) == Len(s) >= Len(prefix) /\ SubSeq(s, 1, Len(prefix)) = prefix

\* the preference keys the handler derived for a returned recommendation: its
\* recId is the canonical key it resolved, unless it is a wk: or isbn: key
DerivedKeys(r) ==
    buildPreferenceKeys(IF StartsWith(r.recId, "wk:") \/ StartsWith(r.recId, "isbn:")
                        THEN Null ELSE r.recId,
                        r.workKey, primaryAuthorKey(r.authors), titleTokenKey(r.title), r.isbn)

\* C6: a candidate with a derived preference key (canonical key, ol:{workKey},
\* na:{author}|{title}, isbn:{identifier}) that is the key of a stored dislike
\* signal is not returned, even if another of its keys matches a like
C6_DislikedExcluded ==
    (Answered /\ req.prefStore = "ok") =>
        \A i \in 1..Len(Recommendations) :
            DerivedKeys(Recommendations[i]) \cap StoredDislikes = {}

\* the seed filter of the request: read, and in mode "liked" rated at least minRating
SeedFilter(e) ==
    /\ e.status = "read"
    /\ req.seedMode = "liked" => (e.rating # NoRating /\ e.rating >= req.minRating)

NoSeedEntry ==
    /\ req.user
    /\ req.db = "ok"
    /\ \A j \in 1..Len(req.entries) : ~SeedFilter(req.entries[j])

\* C7: if no library entry satisfies the seed filter, the handler makes no
\* network call and no cache write, and its answer is a success with
\* recommendations = [] and profile.likedCount = 0
C7_EmptySeedShortCircuit ==
    NoSeedEntry =>
        /\ h.n = 0
        /\ caches = EmptyCaches
        /\ h.pc \in {"start", "library", "done"}
        /\ h.pc = "done" =>
               (resp.ok /\ resp.recommendations = <<>> /\ resp.profile.likedCount = 0)

C7_Witness ==
    /\ NoSeedEntry
    /\ h.pc = "done"
    /\ Len(req.entries) > 0
    /\ Len(req.docs) > 0
    /\ resp.ok

\* the isbns the documents of the catalog answer carry
DocIsbns(docs) == {bestIsbnFromDoc(docs[i]) : i \in DOMAIN docs}

SeedSetByMode ==
    SelectSeq(SeedEntries(h.entries, req.selectedSeedIds), SeedFilter)

\* C14: the profile is built from the read entries, with rating >= minRating
\* when seedMode = liked and whatever their rating when seedMode = allRead, so
\* that a seed set that is not empty does not answer with the empty profile
C14_SeedSetByMode ==
    (h.pc = "done" /\ resp.ok)
    => /\ resp.profile.likedCount = Len(SeedSetByMode)
       /\ Len(SeedSetByMode) > 0 => h.n > 0

\* C15: the second of two runs of the handler on the same request, library,
\* events and catalog answers with the list of the first, whatever the caches
\* of the process held when it started
C15_SameListOnSecondRun ==
    (h.run = 2 /\ h.pc = "done")
    => (resp.ok = h.first.ok /\ resp.recommendations = h.first.recommendations)

\* the candidate of isbn is in the returned list
Returned(isbn) == \E k \in DOMAIN resp.recommendations : resp.recommendations[k].isbn = isbn

\* candidates of different isbns with one CanonicalKey, a scoring higher than b
SameWorkPair(a, b) ==
    /\ a.rec.isbn # b.rec.isbn
    /\ RecCanonicalKey(a.rec) # Null
    /\ RecCanonicalKey(a.rec) = RecCanonicalKey(b.rec)
    /\ a.rec.score > b.rec.score

\* C16: of two candidates with different identifiers and the same CanonicalKey
\* of which one is returned, only the one with the higher score is returned,
\* whichever language group each is in
C16_HigherScoringOfSameWork ==
    Answered =>
        \A i, j \in DOMAIN h.scored :
            (SameWorkPair(h.scored[i], h.scored[j])
             /\ (Returned(h.scored[i].rec.isbn) \/ Returned(h.scored[j].rec.isbn)))
            => (Returned(h.scored[i].rec.isbn) /\ ~Returned(h.scored[j].rec.isbn))

\* C17: the list under construction and the returned list never have more
\* entries than the effective limit of the request (20 for limit >= 20, else
\* 15), and once the list has that many entries no further candidate is
\* examined: the last candidate of the loop is the one that filled the list
C17_StopsAtLimit ==
    /\ h.pc \in {"loop", "done"}
       => /\ h.limit = EffectiveLimit(req.limitParam)
          /\ Len(h.loop.out) <= h.limit
          /\ (Len(h.loop.out) = h.limit /\ h.log # <<>>)
             => h.log[Len(h.log)].verdict = "accepted"
    /\ Answered => /\ Len(resp.recommendations) <= EffectiveLimit(req.limitParam)
                   /\ resp.recommendations = h.loop.out

\* an answer of exactly limit recommendations with candidates left unexamined
C17_Witness ==
    /\ Answered
    /\ Len(resp.recommendations) = EffectiveLimit(req.limitParam)
    /\ h.idx <= Len(h.scored)
    /\ Len(h.log) < Len(h.scored)

\* an exception reached the catch block of the handler: a store of the
\* signed-in user's request failed when the handler read it
ExceptionThrown ==
    /\ req.user
    /\ \/ req.db # "ok"
       \/ (req.prefStore \notin {"ok", "P2021"} /\ h.profile.likedCount > 0)

\* C19: a request in which an exception was thrown is answered with the error
\* response of status 500 and ok: false and with no recommendations, an error
\* response is either that one or the 401 of a visitor not signed in, and a
\* request is answered exactly once: the answer is there when the handler is
\* done and is not replaced before the next request starts
C19_OneErrorResponse ==
    /\ [](h.pc = "done" <=> resp # NoResponse)
    /\ []((h.pc = "done" /\ ExceptionThrown)
          => (~resp.ok /\ resp.status = 500 /\ resp.recommendations = <<>>))
    /\ []((h.pc = "done" /\ ~resp.ok)
          => (ExceptionThrown \/ (~req.user /\ resp.status = 401)))
    /\ [][resp # NoResponse
          => (resp' = resp \/ (resp' = NoResponse /\ h.run = 1 /\ h'.run = 2))]_vars

\* the preference store failed with another error than the missing table and
\* the request was answered with the error response
C19_Witness ==
    /\ h.pc = "done"
    /\ req.prefStore = "error"
    /\ h.profile.likedCount > 0
    /\ ~resp.ok
    /\ resp.status = 500

\* every key of the Map old is in new with the value it had
MapKept(old, new) == \A k \in DOMAIN old : k \in DOMAIN new /\ new[k] = old[k]

\* the step belongs to one run of the handler
WithinRequest == h'.run = h.run

\* the positions of the search cache whose key the step removed
RemovedBy(old, new) == {i \in DOMAIN old : old[i].key \notin CacheKeys(new)}

\* the positions of the search cache whose entry the step replaced under its key
ReplacedBy(old, new) ==
    {i \in DOMAIN old : old[i].key \in CacheKeys(new) /\ new[CacheIndex(new, old[i].key)] # old[i]}

IdentityCachesKept ==
    /\ MapKept(caches.olIsbnWork, caches'.olIsbnWork)
    /\ MapKept(caches.workWikidata, caches'.workWikidata)
    /\ MapKept(caches.wikidataTitleAuthor, caches'.wikidataTitleAuthor)

CandidateStep == h.pc = "loop" /\ h'.run = h.run /\ Len(h'.log) = Len(h.log) + 1

\* the verdicts of the exact-match filters on the owned identifiers and the
\* owned (primaryAuthorKey, titleTokenKey) pairs
CheapVerdicts == {"ownedIsbn", "ownedCanonical"}

\* the candidate's identifier is an owned identifier, or its
\* (primaryAuthorKey, titleTokenKey) pair is an owned pair
CheapMatch(r, owned) ==
    \/ OwnedIsbnHit(r.isbn, owned.ownedIsbn)
    \/ /\ titleTokenKey(r.title) # ""
       /\ (primaryAuthorKey(r.authors) \o "|" \o titleTokenKey(r.title)) \in owned.ownedCanonical

\* C21: the handler makes no network call (work key by title and author, work
\* key by identifier, canonical key) for a candidate that it drops because its
\* identifier is an owned identifier or its author and title pair is an owned pair
C21_NoCallsForCheaplyDropped ==
    [][(/\ CandidateStep
        /\ \/ h'.log[Len(h'.log)].verdict \in CheapVerdicts
           \/ CheapMatch(h.scored[h.idx].rec, h.owned))
       => h'.n = h.n]_vars

(***************************************************************************)
(* The like overlay on what is returned                                    *)
(***************************************************************************)
AcceptedLog == SelectSeq(h.log, LAMBDA e : e.verdict = "accepted")

LikedAt(e) == e.preferenceKeys \cap h.signals.likedKeys # {}

\* C24: an accepted candidate one of whose preference keys is a liked key is
\* returned with its scored value plus 8 and the preference reason first; an
\* accepted candidate with no liked key is returned with the score and the
\* reasons it was scored with
C24_LikeBoostOnReturned ==
    Answered =>
        /\ Len(Recommendations) = Len(AcceptedLog)
        /\ \A k \in 1..Len(AcceptedLog) :
              LET scored == AcceptedLog[k].item.rec
                  r == Recommendations[k]
              IN  /\ AcceptedLog[k].preferenceKeys \cap h.signals.dislikedKeys = {}
                  /\ IF LikedAt(AcceptedLog[k])
                     THEN /\ r.score = scored.score + PREFERENCE_LIKE_BOOST
                          /\ r.reasons # <<>>
                          /\ r.reasons[1] = PreferenceLabel
                     ELSE /\ r.score = scored.score
                          /\ r.reasons = scored.reasons

C24_Witness ==
    /\ Answered
    /\ \E k \in 1..Len(AcceptedLog) : LikedAt(AcceptedLog[k])
    /\ \E k \in 1..Len(AcceptedLog) : ~LikedAt(AcceptedLog[k])

(***************************************************************************)
(* The feedback endpoint (pages/api/recommendation-feedback.ts), and a     *)
(* recommendation request after it                                         *)
(***************************************************************************)
\* the stop words of the endpoint's own titleTokenKey
FeedbackStopwords ==
    { "the", "a", "an", "and", "or", "of", "to", "in", "on", "for", "with",
      "der", "die", "das", "ein", "eine", "und", "oder", "von", "zu", "mit", "im", "am",
      "le", "la", "les", "de", "des", "du", "et", "un", "une",
      "el", "los", "las", "del", "y", "una" }

\* the endpoint's titleTokenKey; its norm differs from the handler's in the
\* non-ASCII characters it drops, and the texts here are ASCII
FeedbackTitleTokenKey(title) ==
    join(slice(SelectSeq(FilterNonEmpty(split(norm(title), " ")),
                         LAMBDA t : t \notin FeedbackStopwords),
               TitleKeyTokens), " ")

fallbackKey(title, authors, isbn, now) ==
    LET ak == norm(pickPrimaryAuthor(authors))
        tk == FeedbackTitleTokenKey(title)
    IN  IF ak # "" /\ tk # "" THEN "na:" \o ak \o "|" \o tk
        ELSE IF isbn # "" THEN "isbn:" \o isbn
        ELSE "manual:" \o now

\* String(req.body?.field || "").trim()
BodyString(v) == IF v = Null THEN "" ELSE trim(v)

FeedbackKey(workKey, title, authors, isbn, now) ==
    IF workKey # ""
    THEN IF StartsWith(workKey, "/") THEN "ol:" \o workKey ELSE workKey
    ELSE fallbackKey(title, authors, isbn, now)

FeedbackActions == {"like", "dislike"}

\* POST recommendation-feedback for the k-th recommendation of the answer:
\* the event is created with the key the endpoint derives
RecordFeedback(k, action) ==
    /\ h.pc = "done"
    /\ h.run = 1
    /\ resp.ok
    /\ req.user
    /\ rc = NoCall
    /\ k \in 1..Len(resp.recommendations)
    /\ LET r == resp.recommendations[k]
           body == <<BodyString(r.workKey), BodyString(r.title), BodyString(r.authors),
                     BodyString(r.isbn)>>
           key == FeedbackKey(body[1], body[2], body[3], body[4], "now")
       IN  /\ rc' = [NoCall EXCEPT !.fn = "recommendation-feedback", !.val = key,
                                   !.kind = action] @@ [args |-> body]
           /\ req' = [req EXCEPT !.events = Append(@, [workKey |-> key,
                                                       event |-> "pref_" \o action])]
    /\ UNCHANGED <<pm, caches, h, resp, searches>>

DocIlGatto == CapDoc(<<"Bo Z">>, "Il Gatto", "9780000000051", 18)
DocGattoPlain == CapDoc(<<"Bo Z">>, "Gatto", "9780000000052", 18)

FeedbackRequests ==
    { [BaseRequest EXCEPT !.again = "same", !.docs = ds] :
        ds \in { <<DocKnoten, DocGato>>, <<DocArkTwo, DocNodeBTwo>>, <<DocIlGatto>>,
                 <<DocGattoPlain>>, <<DocGnuOther, DocKnot>> } }

FeedbackInit ==
    /\ pm = PmIdle
    /\ caches = EmptyCaches
    /\ rc = NoCall
    /\ req \in FeedbackRequests
    /\ h = HandlerIdle
    /\ resp = NoResponse
    /\ searches = ScIdle

FeedbackNext ==
    \/ Authenticate
    \/ LoadLibrary
    \/ BuildOwnedKeys
    \/ ResolveOwnedCanonical
    \/ LoadSignals
    \/ Search
    \/ NextCandidate
    \/ Respond
    \/ \E k \in 1..MaxDocs, action \in FeedbackActions : RecordFeedback(k, action)
    \/ RunAgain

SpecFeedback == FeedbackInit /\ [][FeedbackNext]_vars

DislikeRecorded == rc.fn = "recommendation-feedback" /\ rc.kind = "dislike"

SameBook(r, body) == r.title = body[2] /\ r.authors = body[3] /\ r.isbn = body[4]

\* C25: after a dislike recorded through the feedback endpoint for a returned
\* recommendation, the answer to a later request does not hold that
\* recommendation
C25_DislikedNeverReturned ==
    (DislikeRecorded /\ h.run = 2 /\ Answered)
        => \A i \in 1..Len(Recommendations) : ~SameBook(Recommendations[i], rc.args)

(***************************************************************************)
(* Owned works, and the order of the answer                                *)
(***************************************************************************)
\* C27: no recommendation of an answer has a work key of the owned work keys
\* built for the request
C27_NoOwnedWorkKey ==
    Answered =>
        \A i \in 1..Len(Recommendations) :
            Recommendations[i].workKey \notin h.owned.ownedWork

\* an answer with a recommendation of a known work, to a request one of whose
\* candidates was dropped for its owned work key
C27_Witness ==
    /\ Answered
    /\ Verdicts("ownedWork") # {}
    /\ h.owned.ownedWork # {}
    /\ \E i \in 1..Len(Recommendations) : Recommendations[i].workKey # Null

\* C28: the recommendations of an answer are in non-increasing order of score
C28_SortedByScore ==
    Answered =>
        \A i \in 1..(Len(Recommendations) - 1) :
            Recommendations[i].score >= Recommendations[i + 1].score

(***************************************************************************)
(* loadPreferenceSignals over the stored events of a user                  *)
(***************************************************************************)
SignalKeys == {"ol:/works/OL2W", " ol:/works/OL2W", "isbn:9780000000004", ""}

SignalEvents == [workKey : SignalKeys, event : {"pref_like", "pref_dislike"}]

MaxEvents == 3

\* a key liked, then disliked, and PREFERENCE_TAKE clicks on another key since
ManyEvents ==
    <<[workKey |-> "ol:/works/OL2W", event |-> "pref_like"],
      [workKey |-> "ol:/works/OL2W", event |-> "pref_dislike"]>>
    \o [i \in 1..PREFERENCE_TAKE |-> [workKey |-> "isbn:9780000000004", event |-> "pref_like"]]

SignalsIdle == [pc |-> "start", signals |-> NoPrefs]

\* the events stored for the user, oldest first
SignalsInit ==
    /\ pm = PmIdle
    /\ caches = EmptyCaches
    /\ rc = NoCall
    /\ req \in { [events |-> ev, prefStore |-> "ok"] :
                    ev \in SeqsUpTo(SignalEvents, MaxEvents) \cup {ManyEvents} }
    /\ h = SignalsIdle
    /\ resp = NoResponse
    /\ searches = ScIdle

LoadStoredSignals ==
    /\ h.pc = "start"
    /\ h' = [pc |-> "loaded",
             signals |-> loadPreferenceSignals(req.events, req.prefStore).signals]
    /\ UNCHANGED <<pm, caches, rc, req, resp, searches>>

SpecSignals == SignalsInit /\ [][LoadStoredSignals]_vars

EventsOfKey(k) == {i \in 1..Len(req.events) : trim(req.events[i].workKey) = k}

StoredKeys == {trim(req.events[i].workKey) : i \in 1..Len(req.events)} \ {""}

\* the most recent event stored for key k
LatestEvent(k) ==
    req.events[CHOOSE i \in EventsOfKey(k) : \A j \in EventsOfKey(k) : j <= i].event

\* C30: the loaded likedKeys and dislikedKeys are disjoint, and each stored
\* key is in the set of its most recent event and not in the other
C30_LatestEventDecides ==
    h.pc = "loaded"
        => /\ h.signals.likedKeys \cap h.signals.dislikedKeys = {}
           /\ \A k \in StoredKeys :
                  /\ k \in h.signals.likedKeys <=> LatestEvent(k) = "pref_like"
                  /\ k \in h.signals.dislikedKeys <=> LatestEvent(k) = "pref_dislike"

====
